---- MODULE Spec2Model ----
(***************************************************************************)
(* Risk-gated execution pipeline of the Bitcoin scalping engine:           *)
(* Kill Switch, Veto Gate, Rulebook, Risk Metrics Tracker, Order Manager,  *)
(* Balance Manager, Decision API and the Trading Engine decision loop.     *)
(*                                                                         *)
(* Units.  Time is in milliseconds, as in the source.  Prices are whole    *)
(* USD.  Quantities are in tenths of a BTC (QtyPerBTC units per BTC).      *)
(* Money is in units of 1/(QtyPerBTC*2000) USD, so that price*quantity*2000*)
(* is a notional and a 5 bps taker fee on it is exactly price*quantity.    *)
(* Percentages and basis points are compared by cross-multiplication, so   *)
(* no comparison is rounded.                                               *)
(***************************************************************************)
EXTENDS Integers, Sequences, FiniteSets, TLC

\* ---------------------------------------------------------------- bounds
\* clock steps while the kill switch interface is exercised
MaxTicks == 2
\* clock steps past the quote age limit while the engine or the gate runs
MaxQuoteTicks == 1
\* depth update ids of the feed
MaxSeq == 2
\* decision cycles the timer starts; they may overlap
MaxCycles == 2
\* trade closes recorded directly on the tracker
MaxCloses == 1
\* orders created through the execution interface
MaxOrders == 3
\* parameter versions, and proposals pending at once
MaxVersions == 3
MaxProposals == 2
\* trade closes and order placements recorded through the tracker's interface
MaxTrades == 3
MaxPlaced == 2

\* ------------------------------------------------------------- constants
StartTime == 1000000
DefaultCooldownMs == 300000
MinCooldownMs == 60000
Undefined == 0
QtyPerBTC == 10
MoneyPerUSD == 2000 * QtyPerBTC
MaxLevels == 20
StaleMaxAgeMs == 5000
TopLevels == 5
ThinLevels == 3
InsufficientDepthBps == 1000
takerFeeBps == 5
makerFeeBps == 2
startingEquity == 10000 * MoneyPerUSD
maxRetries == 2
maxLogs == 10000
reconnectDelay == 1000
maxReconnectAttempts == 10
NotSleeping == 0
MinConfidenceTenths == 3

ConfirmToken == "CONFIRM_RESUME_TRADING"
Tokens == {ConfirmToken, "yes"}
Triggers == {"MANUAL", "AUTO_DRAWDOWN", "AUTO_LOSS", "AUTO_ERROR", "SYSTEM"}
TickDeltas == {6000, 300000}
QuoteAgeStep == StaleMaxAgeMs + 1000
CooldownInputs == {1000, 120000}

\* DEFAULT_RULEBOOK; sizes and liquidity in units of 1/QtyPerBTC BTC
DEFAULT_RULEBOOK ==
    [maxPositionSizeBTC |-> 5, maxExposurePercent |-> 5,
     maxDailyLossPercent |-> 2, maxDrawdownPercent |-> 5, maxConsecutiveLosses |-> 5,
     maxSpreadBps |-> 10, maxSlippageBps |-> 5, minLiquidityBTC |-> 10 * QtyPerBTC,
     minHoldTimeMs |-> 5000, maxHoldTimeMs |-> 300000,
     maxOrdersPerMinute |-> 10, maxOrdersPerHour |-> 100,
     killSwitchEnabled |-> FALSE, maxLeverage |-> 3]

\* --------------------------------------------------------------- numbers
\* A non-negative JavaScript number that is a quotient is kept as n/d; d = 0
\* stands for Infinity (or NaN), which no comparison with a finite limit
\* satisfies.
Abs(x) == IF x < 0 THEN -x ELSE x
Min(a, b) == IF a < b THEN a ELSE b
Max(a, b) == IF a > b THEN a ELSE b

RECURSIVE FracGT(_, _, _, _)
\* a/b > c/d for a, c >= 0 and b, d > 0, without forming a*d
FracGT(a, b, c, d) ==
    LET qa == a \div b
        qc == c \div d
        ra == a % b
        rc == c % d
    IN IF qa # qc THEN qa > qc
       ELSE IF ra = 0 THEN FALSE
       ELSE IF rc = 0 THEN TRUE
       ELSE FracGT(d, rc, b, ra)

\* JavaScript  x <= limit  and  x > y (false when a NaN is involved)
NumLE(x, limit) == x.d # 0 /\ (x.n <= 0 \/ ~FracGT(x.n, x.d, limit, 1))
NumGT(x, y) == IF x.d = 0 THEN y.d # 0 /\ x.n > 0
               ELSE y.d # 0 /\ FracGT(x.n, x.d, y.n, y.d)
Num(n) == [n |-> n, d |-> 1]
Infinity == [n |-> 1, d |-> 0]

VARIABLES
    now,               \* Date.now()
    ticks,             \* number of clock advances so far
    killSwitch,        \* KillSwitch.state
    cooldownMs,        \* KillSwitch.cooldownMs
    activatedEvents,   \* number of 'activated' events emitted
    deactivatedEvents, \* number of 'deactivated' events emitted
    ksCall,            \* the last KillSwitch activate / deactivate call and its result
    orderBook,         \* OrderBookManager.orderBook (bids, asks, timestamp, lastUpdateId)
    isInitialized,     \* OrderBookManager.isInitialized
    lastPrice,         \* TradeTapeProcessor.lastPrice
    tracker,           \* RiskMetricsTracker (metrics, peakEquity, startOfDayEquity, orderTimestamps)
    account,           \* BalanceManager (position, balance)
    orders,            \* OrderManager.orders, indexed by order id
    openOrders,        \* OrderManager.openOrders
    isPaperTrading,    \* OrderManager.isPaperTrading
    isShutdown,        \* EmergencyShutdown.isShutdown
    isRunning,         \* the decision loop has been started
    cycles,            \* the decision cycles the timer has started, and where each one is
    logs,              \* DecisionLogger.logs
    lastVerdict,       \* the RiskVeto the Veto Gate produced last
    rulebook,          \* RulebookEngine.rulebook
    versions,          \* ParameterManager.versions; activeVersion is the last one
    pendingProposals,  \* ParameterManager.pendingProposals
    retryConfig,       \* OrderRetryManager.config
    pendingRetries,    \* OrderRetryManager.pendingRetries, keyed by order id
    retryTimers,       \* the timers scheduleRetry has set that have not fired yet
    submits,           \* the submitOrder calls made through the execution interface
    fillCheck,         \* the checkPendingFills call in flight
    emitted,           \* per event name and order id, how often it was emitted
    omCall,            \* the last call whose outcome is observed, and that outcome
    metricsLog,        \* every recordTradeClose and recordOrderPlaced call made so far
    wsClient           \* WebSocketClient (connections, reconnectAttempts, isShuttingDown)

ksVars == <<killSwitch, cooldownMs, activatedEvents, deactivatedEvents, ksCall>>
clockVars == <<now, ticks>>
bookVars == <<orderBook, isInitialized>>
orderVars == <<orders, openOrders>>
engineVars == <<cycles, logs, lastVerdict>>
parameterVars == <<rulebook, versions, pendingProposals>>
executionVars == <<retryConfig, pendingRetries, retryTimers, submits, fillCheck, omCall>>
vars == <<now, ticks, killSwitch, cooldownMs, activatedEvents, deactivatedEvents, ksCall,
          orderBook, isInitialized, lastPrice, tracker, account, orders, openOrders,
          isPaperTrading, isShutdown, isRunning, cycles, logs, lastVerdict,
          parameterVars, wsClient, executionVars, emitted, metricsLog>>

\* -------------------------------------------------------------- Order Book
Level(p, q) == [price |-> p, quantity |-> q]

\* Array.prototype.findIndex: the first index in hits, 0 when there is none
FindIndex(hits) ==
    IF hits = {} THEN 0 ELSE CHOOSE i \in hits : \A j \in hits : i <= j

RemoveAt(levels, i) == SubSeq(levels, 1, i - 1) \o SubSeq(levels, i + 1, Len(levels))
InsertAt(levels, i, x) == SubSeq(levels, 1, i - 1) \o <<x>> \o SubSeq(levels, i, Len(levels))
Truncate(levels) == IF Len(levels) > MaxLevels THEN SubSeq(levels, 1, MaxLevels) ELSE levels

\* an updateLevel that pushes the level at the end of the side
updateLevelAppends(levels, isDescending, price, quantity) ==
    IF quantity = 0
    THEN SelectSeq(levels, LAMBDA l : l.price # price)
    ELSE Truncate(Append(levels, Level(price, quantity)))

\* OrderBookManager.updateLevel
updateLevel(levels, isDescending, price, quantity) ==
    IF quantity = 0
    THEN LET idx == FindIndex({i \in 1..Len(levels) : levels[i].price = price})
         IN IF idx # 0 THEN RemoveAt(levels, idx) ELSE levels
    ELSE LET found == FindIndex({i \in 1..Len(levels) :
                                   IF isDescending THEN levels[i].price <= price
                                                   ELSE levels[i].price >= price})
             insertIdx == IF found = 0 THEN Len(levels) + 1 ELSE found
         IN IF insertIdx <= Len(levels) /\ levels[insertIdx].price = price
            THEN Truncate([levels EXCEPT ![insertIdx].quantity = quantity])
            ELSE Truncate(InsertAt(levels, insertIdx, Level(price, quantity)))

RECURSIVE ApplyDeltas(_, _, _)
\* the loop  for (const [price, qty] of deltas) updateLevel(side, price, qty)
ApplyDeltas(levels, isDescending, deltas) ==
    IF deltas = <<>> THEN levels
    ELSE ApplyDeltas(updateLevel(levels, isDescending, Head(deltas).price, Head(deltas).quantity),
                     isDescending, Tail(deltas))

\* OrderBookManager.createEmptyOrderBook
createEmptyOrderBook(t) == [bids |-> <<>>, asks |-> <<>>, timestamp |-> t, lastUpdateId |-> 0]

\* OrderBookManager.getBestBid / getBestAsk
getBestBid(book) == IF book.bids = <<>> THEN 0 ELSE book.bids[1].price
getBestAsk(book) == IF book.asks = <<>> THEN 0 ELSE book.asks[1].price

\* an isReady that does not look at the age of the book
isReadyWhenInitialized == isInitialized

\* OrderBookManager.isStale / isReady
isStale(book, t) == t - book.timestamp > StaleMaxAgeMs
isReady == isInitialized /\ ~isStale(orderBook, now)

\* Depth messages of the feed: a full three-level book, the removal of every
\* bid level, and the removal of the two outer levels of each side.
GoodDepth == [b |-> <<Level(20000, 40), Level(19990, 40), Level(19980, 40)>>,
              a |-> <<Level(20010, 40), Level(20020, 40), Level(20030, 40)>>]
DrainBids == [b |-> <<Level(20000, 0), Level(19990, 0), Level(19980, 0)>>, a |-> <<>>]
ThinDepth == [b |-> <<Level(19990, 0), Level(19980, 0)>>,
              a |-> <<Level(20020, 0), Level(20030, 0)>>]
DepthMsgs == {GoodDepth, DrainBids, ThinDepth}
TradePrices == {20000}

\* a handleDepthUpdate without the sequence test
handleDepthUpdateReplays(u, msg, E) ==
    /\ orderBook' = [bids |-> ApplyDeltas(orderBook.bids, TRUE, msg.b),
                     asks |-> ApplyDeltas(orderBook.asks, FALSE, msg.a),
                     timestamp |-> IF E # 0 THEN E ELSE now,
                     lastUpdateId |-> u]
    /\ isInitialized' = TRUE
    /\ emitted' = [emitted EXCEPT !.update = @ + 1]

\* OrderBookManager.handleDepthUpdate; E is the event time of the message,
\* 0 when the message carries none
handleDepthUpdate(u, msg, E) ==
    /\ IF u <= orderBook.lastUpdateId
       THEN UNCHANGED <<orderBook, isInitialized, emitted>>
       ELSE LET bids == ApplyDeltas(orderBook.bids, TRUE, msg.b)
                asks == ApplyDeltas(orderBook.asks, FALSE, msg.a)
            IN /\ orderBook' = [bids |-> bids, asks |-> asks,
                                timestamp |-> IF E # 0 THEN E ELSE now,
                                lastUpdateId |-> u]
               /\ isInitialized' = (isInitialized \/ (bids # <<>> /\ asks # <<>>))
               /\ emitted' = [emitted EXCEPT !.update = @ + 1]

\* TradeTapeProcessor: a trade of the feed sets the last price
handleTrade(p) == lastPrice' = p

\* ------------------------------------------------------ Risk Metrics Tracker
\* createInitialRiskMetrics, with the tracker's private fields.  Percentages
\* are kept as quotients n/d.  The updatedAt / lastTradeAt / drawdownStartedAt
\* stamps are not kept.
createInitialRiskMetrics ==
    [dailyPnl |-> 0, dailyPnlPercent |-> Num(0), dailyTrades |-> 0, dailyWins |-> 0,
     dailyLosses |-> 0, currentDrawdown |-> Num(0), maxDrawdown |-> Num(0),
     consecutiveLosses |-> 0, consecutiveWins |-> 0,
     ordersLastMinute |-> 0, ordersLastHour |-> 0, currentExposurePercent |-> Num(0)]

NewTracker ==
    [metrics |-> createInitialRiskMetrics, peakEquity |-> 0, startOfDayEquity |-> 0,
     orderTimestamps |-> <<>>]

\* RiskMetricsTracker.initialize
TrackerInitialize(tr, equity) == [tr EXCEPT !.peakEquity = equity, !.startOfDayEquity = equity]

\* orderTimestamps.filter(t => t > cutoff)
FilterSeq(stamps, cutoff) ==
    LET F[i \in 0..Len(stamps)] ==
            IF i = 0 THEN <<>>
            ELSE IF stamps[i] > cutoff THEN Append(F[i - 1], stamps[i]) ELSE F[i - 1]
    IN F[Len(stamps)]

\* order rates that prune the window and keep the counts they had
updateOrderRatesKeepsCounts(tr, t) ==
    [tr EXCEPT !.orderTimestamps = FilterSeq(tr.orderTimestamps, t - 3600000)]

\* RiskMetricsTracker.updateOrderRates
updateOrderRates(tr, t) ==
    LET kept == FilterSeq(tr.orderTimestamps, t - 3600000)
    IN [tr EXCEPT !.orderTimestamps = kept,
                  !.metrics.ordersLastMinute = Len(FilterSeq(kept, t - 60000)),
                  !.metrics.ordersLastHour = Len(kept)]

\* RiskMetricsTracker.recordOrderPlaced
recordOrderPlaced(tr, t) ==
    updateOrderRates([tr EXCEPT !.orderTimestamps = Append(@, t)], t)

\* a close that counts the streaks and never resets the opposite one
recordTradeCloseKeepsStreaks(tr, pnl, currentEquity) ==
    [tr EXCEPT !.metrics.dailyTrades = @ + 1,
               !.metrics.consecutiveWins = IF pnl > 0 THEN @ + 1 ELSE @,
               !.metrics.consecutiveLosses = IF pnl < 0 THEN @ + 1 ELSE @]

\* a close whose peak follows the current equity down as well as up
recordTradeClosePeakFollows(tr, pnl, currentEquity) ==
    LET dd == [n |-> 0, d |-> currentEquity]
    IN [tr EXCEPT !.metrics.dailyTrades = @ + 1,
                  !.metrics.currentDrawdown = dd,
                  !.peakEquity = currentEquity]

\* RiskMetricsTracker.recordTradeClose
recordTradeClose(tr, pnl, currentEquity) ==
    LET m == tr.metrics
        dailyPnl == m.dailyPnl + pnl
        peak == IF currentEquity > tr.peakEquity THEN currentEquity ELSE tr.peakEquity
        dd == [n |-> (peak - currentEquity) * 100, d |-> peak]
        m1 == [m EXCEPT
                 !.dailyPnl = dailyPnl,
                 !.dailyTrades = @ + 1,
                 !.dailyPnlPercent = IF tr.startOfDayEquity > 0
                                     THEN [n |-> dailyPnl * 100, d |-> tr.startOfDayEquity]
                                     ELSE @,
                 !.dailyWins = IF pnl > 0 THEN @ + 1 ELSE @,
                 !.dailyLosses = IF pnl < 0 THEN @ + 1 ELSE @,
                 !.consecutiveWins = IF pnl > 0 THEN @ + 1 ELSE IF pnl < 0 THEN 0 ELSE @,
                 !.consecutiveLosses = IF pnl < 0 THEN @ + 1 ELSE IF pnl > 0 THEN 0 ELSE @]
        m2 == IF peak > 0
              THEN [m1 EXCEPT !.currentDrawdown = dd,
                              !.maxDrawdown = IF NumGT(dd, @) THEN dd ELSE @]
              ELSE m1
    IN [tr EXCEPT !.metrics = m2, !.peakEquity = peak]

\* the calls made on the tracker, in order: the closes with their pnl and
\* equity, and the times of the orders placed
NoRead == [at |-> Undefined, placed |-> 0, ordersLastMinute |-> 0, ordersLastHour |-> 0]
NoMetricsLog == [closes |-> <<>>, placed |-> <<>>, read |-> NoRead]
LogClose(log, pnl, currentEquity) ==
    [log EXCEPT !.closes = Append(@, [pnl |-> pnl, equity |-> currentEquity])]
LogPlaced(log, t) == [log EXCEPT !.placed = Append(@, t)]
\* what the last getMetrics call returned, and when
LogRead(log, t, metrics) ==
    [log EXCEPT !.read = [at |-> t, placed |-> Len(log.placed),
                          ordersLastMinute |-> metrics.ordersLastMinute,
                          ordersLastHour |-> metrics.ordersLastHour]]

\* --------------------------------------------------------- Balance Manager
createEmptyPosition ==
    [side |-> "FLAT", quantity |-> 0, entryPrice |-> Undefined, unrealizedPnl |-> 0,
     marginUsed |-> 0]

NewBalance ==
    [totalEquity |-> 0, availableBalance |-> 0, marginUsed |-> 0, unrealizedPnl |-> 0,
     realizedPnl |-> 0]

\* BalanceManager.initialize
BalanceInitialize(equity) ==
    [totalEquity |-> equity, availableBalance |-> equity, marginUsed |-> 0,
     unrealizedPnl |-> 0, realizedPnl |-> 0]

\* price * size in money units
Notional(price, size) == price * size * (MoneyPerUSD \div QtyPerBTC)

\* FeeModel.calculateFee
calculateFee(value, isMaker) ==
    (value * (IF isMaker THEN makerFeeBps ELSE takerFeeBps)) \div 10000

\* BalanceManager.openPosition: whether it throws 'Insufficient balance for position'
openPositionThrows(bal, size, entryPrice) == Notional(entryPrice, size) > bal.availableBalance

\* BalanceManager.openPosition: the account it leaves when it does not throw
openPosition(acct, side, size, entryPrice, fee) ==
    LET marginRequired == Notional(entryPrice, size)
    IN [position |-> [side |-> side, quantity |-> size, entryPrice |-> entryPrice,
                      unrealizedPnl |-> 0, marginUsed |-> marginRequired],
        balance |-> [acct.balance EXCEPT !.marginUsed = marginRequired,
                                         !.availableBalance = @ - marginRequired,
                                         !.realizedPnl = @ - fee,
                                         !.totalEquity = @ - fee]]

\* BalanceManager.closePosition: the profit it returns
closePnl(pos, exitPrice, fee) ==
    IF pos.side = "FLAT" THEN [pnl |-> 0, netPnl |-> 0]
    ELSE LET entryPrice == IF pos.entryPrice # Undefined THEN pos.entryPrice ELSE exitPrice
             pnl == IF pos.side = "LONG"
                    THEN Notional(exitPrice - entryPrice, pos.quantity)
                    ELSE Notional(entryPrice - exitPrice, pos.quantity)
         IN [pnl |-> pnl, netPnl |-> pnl - fee]

\* BalanceManager.closePosition: the account it leaves
closePosition(acct, exitPrice, fee) ==
    IF acct.position.side = "FLAT" THEN acct
    ELSE LET netPnl == closePnl(acct.position, exitPrice, fee).netPnl
         IN [position |-> createEmptyPosition,
             balance |-> [acct.balance EXCEPT
                            !.realizedPnl = @ + netPnl,
                            !.marginUsed = 0,
                            !.availableBalance = acct.balance.totalEquity + netPnl - fee,
                            !.totalEquity = @ + netPnl,
                            !.unrealizedPnl = 0]]

\* BalanceManager.updateUnrealizedPnl (run by getBalance and getTotalPnl)
updateUnrealizedPnl(acct, currentPrice) ==
    IF acct.position.side = "FLAT"
    THEN [acct EXCEPT !.balance.unrealizedPnl = 0]
    ELSE LET pos == acct.position
             entryPrice == IF pos.entryPrice # Undefined THEN pos.entryPrice ELSE currentPrice
             u == IF pos.side = "LONG"
                  THEN Notional(currentPrice - entryPrice, pos.quantity)
                  ELSE Notional(entryPrice - currentPrice, pos.quantity)
         IN [position |-> [pos EXCEPT !.unrealizedPnl = u],
             balance |-> [acct.balance EXCEPT
                            !.unrealizedPnl = u,
                            !.totalEquity = acct.balance.availableBalance
                                            + acct.balance.marginUsed + u]]

\* ---------------------------------------------------------------- Rulebook
\* RulebookEngine.getRulebook
getRulebook == rulebook

\* A RiskCheckResult, reduced to its name and verdict (reason, value, limit
\* and timestamp are reporting fields).
Check(name, passed) == [checkName |-> name, passed |-> passed]

checkPositionSize(sizeBTC) ==
    Check("POSITION_SIZE", sizeBTC <= getRulebook.maxPositionSizeBTC)
checkExposure(exposurePercent) ==
    Check("EXPOSURE", NumLE(exposurePercent, getRulebook.maxExposurePercent))
checkDailyLoss(dailyLossPercent) ==
    Check("DAILY_LOSS", NumLE(dailyLossPercent, getRulebook.maxDailyLossPercent))
checkDrawdown(drawdownPercent) ==
    Check("DRAWDOWN", NumLE(drawdownPercent, getRulebook.maxDrawdownPercent))
checkSpread(spreadBps) ==
    Check("SPREAD", NumLE(spreadBps, getRulebook.maxSpreadBps))
checkSlippage(expectedSlippageBps) ==
    Check("SLIPPAGE", NumLE(expectedSlippageBps, getRulebook.maxSlippageBps))
checkLiquidity(liquidityBTC) ==
    Check("LIQUIDITY", liquidityBTC >= getRulebook.minLiquidityBTC)
checkHoldTime(holdTimeMs) ==
    Check("HOLD_TIME", holdTimeMs >= getRulebook.minHoldTimeMs
                       /\ holdTimeMs <= getRulebook.maxHoldTimeMs)
checkOrderRate(ordersLastMinute, ordersLastHour) ==
    Check("ORDER_RATE", ordersLastMinute < getRulebook.maxOrdersPerMinute
                        /\ ordersLastHour < getRulebook.maxOrdersPerHour)
checkConsecutiveLosses(consecutiveLosses) ==
    Check("CONSECUTIVE_LOSSES", consecutiveLosses < getRulebook.maxConsecutiveLosses)
checkLeverage(leverage) ==
    Check("LEVERAGE", leverage <= getRulebook.maxLeverage)
checkKillSwitch ==
    Check("KILL_SWITCH", ~getRulebook.killSwitchEnabled)

\* RulebookEngine.boundHoldTime and boundPositionSize
boundHoldTime(holdTimeMs) ==
    Max(getRulebook.minHoldTimeMs, Min(getRulebook.maxHoldTimeMs, holdTimeMs))
boundPositionSize(sizeBTC) ==
    Min(getRulebook.maxPositionSizeBTC, Max(0, sizeBTC))

\* RulebookConfigSchema.parse succeeds on the merged configuration (sizes and
\* liquidity in units of 1/QtyPerBTC BTC)
RulebookConfigSchemaOk(r) ==
    /\ r.maxPositionSizeBTC > 0 /\ r.maxPositionSizeBTC <= 10 * QtyPerBTC
    /\ r.maxExposurePercent > 0 /\ r.maxExposurePercent <= 100
    /\ r.maxDailyLossPercent > 0 /\ r.maxDailyLossPercent <= 100
    /\ r.maxDrawdownPercent > 0 /\ r.maxDrawdownPercent <= 100
    /\ r.maxConsecutiveLosses > 0
    /\ r.maxSpreadBps > 0 /\ r.maxSlippageBps > 0 /\ r.minLiquidityBTC > 0
    /\ r.minHoldTimeMs > 0 /\ r.maxHoldTimeMs > 0
    /\ r.maxOrdersPerMinute > 0 /\ r.maxOrdersPerHour > 0
    /\ r.killSwitchEnabled \in BOOLEAN
    /\ r.maxLeverage > 0 /\ r.maxLeverage <= 10

\* a battery that stops at the first check that fails
validateDecisionShortCircuits(decision, context) ==
    LET all == << checkPositionSize(decision.size),
                  checkExposure(context.currentExposurePercent),
                  checkDailyLoss(context.dailyLossPercent),
                  checkDrawdown(context.drawdownPercent),
                  checkSpread(context.spreadBps),
                  checkSlippage(context.expectedSlippageBps),
                  checkLiquidity(context.liquidityBTC),
                  checkHoldTime(decision.holdTimeMs),
                  checkOrderRate(context.ordersLastMinute, context.ordersLastHour),
                  checkConsecutiveLosses(context.consecutiveLosses),
                  checkLeverage(context.currentLeverage),
                  checkKillSwitch >>
        failed == {i \in 1..Len(all) : ~all[i].passed}
    IN IF failed = {} THEN all
       ELSE SubSeq(all, 1, CHOOSE i \in failed : \A j \in failed : i <= j)

\* RulebookEngine.validateDecision
validateDecision(decision, context) ==
    << checkPositionSize(decision.size),
       checkExposure(context.currentExposurePercent),
       checkDailyLoss(context.dailyLossPercent),
       checkDrawdown(context.drawdownPercent),
       checkSpread(context.spreadBps),
       checkSlippage(context.expectedSlippageBps),
       checkLiquidity(context.liquidityBTC),
       checkHoldTime(decision.holdTimeMs),
       checkOrderRate(context.ordersLastMinute, context.ordersLastHour),
       checkConsecutiveLosses(context.consecutiveLosses),
       checkLeverage(context.currentLeverage),
       checkKillSwitch >>

\* ---------------------------------------------------- Forbidden Conditions
RECURSIVE SumQty(_)
SumQty(levels) == IF levels = <<>> THEN 0 ELSE Head(levels).quantity + SumQty(Tail(levels))

\* levels.slice(0, 5).reduce(sum of quantity)
TopLiquidity(levels) == SumQty(SubSeq(levels, 1, Min(TopLevels, Len(levels))))

ForbiddenSpread(book) ==
    LET bestBid == getBestBid(book)
        bestAsk == getBestAsk(book)
    IN IF bestBid = 0 \/ bestAsk = 0 THEN <<"MISSING_SPREAD">>
       ELSE IF (bestAsk - bestBid) * 20000 > getRulebook.maxSpreadBps * (bestBid + bestAsk)
            THEN <<"SPREAD_TOO_WIDE">>
            ELSE <<>>

ForbiddenLiquidity(book) ==
    IF Min(TopLiquidity(book.bids), TopLiquidity(book.asks)) < getRulebook.minLiquidityBTC
    THEN <<"LIQUIDITY_TOO_LOW">> ELSE <<>>

ForbiddenStaleQuotes(book, t) ==
    IF t - book.timestamp > StaleMaxAgeMs THEN <<"STALE_QUOTES">> ELSE <<>>

\* |mid - currentPrice| / currentPrice > 0.005; a zero currentPrice divides to
\* Infinity (mid is positive here)
ForbiddenPriceDeviation(book, currentPrice) ==
    LET bestBid == getBestBid(book)
        bestAsk == getBestAsk(book)
    IN IF bestBid = 0 \/ bestAsk = 0 THEN <<>>
       ELSE IF currentPrice = 0 \/ Abs(bestBid + bestAsk - 2 * currentPrice) * 100 > currentPrice
            THEN <<"PRICE_DEVIATION">>
            ELSE <<>>

ForbiddenEmptyOrderBook(book) ==
    IF Len(book.bids) = 0 \/ Len(book.asks) = 0 THEN <<"EMPTY_ORDER_BOOK">>
    ELSE IF Len(book.bids) < ThinLevels \/ Len(book.asks) < ThinLevels
         THEN <<"THIN_ORDER_BOOK">>
         ELSE <<>>

\* ForbiddenConditionsChecker.check: the names of the active conditions
ForbiddenCheck(book, currentPrice, t) ==
    ForbiddenSpread(book) \o ForbiddenLiquidity(book) \o ForbiddenStaleQuotes(book, t)
    \o ForbiddenPriceDeviation(book, currentPrice) \o ForbiddenEmptyOrderBook(book)

\* --------------------------------------------------------------- Veto Gate
RECURSIVE WalkLevels(_, _)
\* the fill loop of estimateSlippage: remaining size and total cost after the walk
WalkLevels(levels, remaining) ==
    IF levels = <<>> \/ remaining <= 0 THEN [remaining |-> remaining, cost |-> 0]
    ELSE LET fillQty == Min(remaining, Head(levels).quantity)
             rest == WalkLevels(Tail(levels), remaining - fillQty)
         IN [remaining |-> rest.remaining, cost |-> rest.cost + fillQty * Head(levels).price]

\* VetoGate.estimateSlippage, in basis points
estimateSlippage(sizeBTC, book, action) ==
    IF sizeBTC <= 0 THEN Num(0)
    ELSE LET levels == IF action \in {"BUY", "CLOSE_SHORT"} THEN book.asks ELSE book.bids
         IN IF levels = <<>> THEN Infinity
            ELSE LET w == WalkLevels(levels, sizeBTC)
                     bestPrice == levels[1].price
                 IN IF w.remaining > 0 THEN Num(InsufficientDepthBps)
                    ELSE [n |-> Abs(w.cost - bestPrice * sizeBTC) * 10000,
                          d |-> sizeBTC * bestPrice]

\* VetoGate.runSanityChecks; confidence is in tenths
runSanityChecks(decision, currentPrice) ==
    (IF decision.orderType = "LIMIT" /\ decision.limitPrice # Undefined
     THEN <<Check("LIMIT_PRICE_SANITY",
                  currentPrice # 0
                  /\ Abs(decision.limitPrice - currentPrice) * 100 <= currentPrice)>>
     ELSE <<>>)
    \o (IF decision.action \in {"BUY", "SELL"}
        THEN <<Check("SIZE_POSITIVE", decision.size > 0)>>
        ELSE <<>>)
    \o <<Check("CONFIDENCE_THRESHOLD", decision.confidence >= MinConfidenceTenths)>>

\* the spread in basis points as VetoGate.evaluate computes it
EvaluateSpreadBps(book) ==
    LET bestBid == getBestBid(book)
        bestAsk == getBestAsk(book)
    IN IF bestBid + bestAsk > 0
       THEN [n |-> (bestAsk - bestBid) * 20000, d |-> bestBid + bestAsk]
       ELSE Infinity

AbsNum(x) == [n |-> Abs(x.n), d |-> x.d]

\* the context VetoGate.evaluate hands to validateDecision
EvaluateContext(decision, book, metrics) ==
    [currentExposurePercent |-> metrics.currentExposurePercent,
     dailyLossPercent |-> AbsNum(metrics.dailyPnlPercent),
     drawdownPercent |-> metrics.currentDrawdown,
     spreadBps |-> EvaluateSpreadBps(book),
     expectedSlippageBps |-> estimateSlippage(decision.size, book, decision.action),
     liquidityBTC |-> Min(TopLiquidity(book.bids), TopLiquidity(book.asks)),
     ordersLastMinute |-> metrics.ordersLastMinute,
     ordersLastHour |-> metrics.ordersLastHour,
     consecutiveLosses |-> metrics.consecutiveLosses,
     currentLeverage |-> 1]

\* the kill switch entry and the forbidden-conditions entry of evaluate
KillSwitchEntry(active) == IF active THEN <<Check("KILL_SWITCH", FALSE)>> ELSE <<>>
ForbiddenEntry(activeConditions) ==
    IF activeConditions # <<>> THEN <<Check("FORBIDDEN_CONDITIONS", FALSE)>> ELSE <<>>

\* the names pushed to failedChecks for a batch of checks
FailedNames(checks) ==
    LET F[i \in 0..Len(checks)] ==
            IF i = 0 THEN <<>>
            ELSE IF ~checks[i].passed THEN Append(F[i - 1], checks[i].checkName) ELSE F[i - 1]
    IN F[Len(checks)]

\* evaluate without the push of FORBIDDEN_CONDITIONS to failedChecks
EvaluateFailedNoForbidden(ksActive, activeConditions, rulebookChecks, sanityChecks) ==
    (IF ksActive THEN <<"KILL_SWITCH">> ELSE <<>>)
    \o FailedNames(rulebookChecks) \o FailedNames(sanityChecks)

\* the failedChecks list VetoGate.evaluate builds, push by push
EvaluateFailed(ksActive, activeConditions, rulebookChecks, sanityChecks) ==
    (IF ksActive THEN <<"KILL_SWITCH">> ELSE <<>>)
    \o (IF activeConditions # <<>> THEN <<"FORBIDDEN_CONDITIONS">> ELSE <<>>)
    \o FailedNames(rulebookChecks) \o FailedNames(sanityChecks)

\* VetoGate.evaluate, given the metrics getMetrics returned
evaluate(decision, book, currentPrice, ksActive, metrics, t) ==
    LET activeConditions == ForbiddenCheck(book, currentPrice, t)
        rulebookChecks == validateDecision(decision, EvaluateContext(decision, book, metrics))
        sanityChecks == runSanityChecks(decision, currentPrice)
        failedChecks == EvaluateFailed(ksActive, activeConditions, rulebookChecks, sanityChecks)
    IN [op |-> "evaluate",
        vetoed |-> Len(failedChecks) > 0,
        decisionId |-> decision.requestId,
        checks |-> KillSwitchEntry(ksActive) \o ForbiddenEntry(activeConditions)
                   \o rulebookChecks \o sanityChecks,
        failedChecks |-> failedChecks,
        ksActive |-> ksActive]

\* VetoGate.forceApprove
forceApprove(decisionId, ksActive) ==
    [op |-> "forceApprove", vetoed |-> FALSE, decisionId |-> decisionId,
     checks |-> <<>>, failedChecks |-> <<>>, ksActive |-> ksActive]

\* ------------------------------------------------------------ Kill Switch
InactiveState ==
    [active |-> FALSE, activatedAt |-> Undefined, activatedBy |-> "undefined",
     reason |-> "undefined", canReactivateAt |-> Undefined]

\* the last activate or deactivate call: its argument (trigger or token), whether
\* the switch was active when it came, and what it returned
NoCall == [op |-> "none", arg |-> "none", wasActive |-> FALSE, result |-> FALSE]

\* KillSwitch.isActive
isActive == killSwitch.active

\* activate without its already-active guard
ActivateStateOverwrites(ks, trigger, reason, t, cd) ==
    [active |-> TRUE, activatedAt |-> t, activatedBy |-> trigger,
     reason |-> reason, canReactivateAt |-> t + cd]

\* KillSwitch.activate: the state it leaves
ActivateState(ks, trigger, reason, t, cd) ==
    IF ks.active
    THEN ks
    ELSE [active |-> TRUE, activatedAt |-> t, activatedBy |-> trigger,
          reason |-> reason, canReactivateAt |-> t + cd]

\* KillSwitch.activate: the number of 'activated' events it emits
ActivateEmits(ks) == IF ks.active THEN 0 ELSE 1

\* KillSwitch.activate(trigger, reason) as a step of the kill switch
KsActivate(trigger, reason) ==
    /\ killSwitch' = ActivateState(killSwitch, trigger, reason, now, cooldownMs)
    /\ activatedEvents' = activatedEvents + ActivateEmits(killSwitch)
    /\ ksCall' = [op |-> "activate", arg |-> trigger, wasActive |-> killSwitch.active,
                  result |-> FALSE]
    /\ UNCHANGED <<cooldownMs, deactivatedEvents>>

\* KillSwitch.checkDrawdownTrigger / checkDailyLossTrigger: whether they activate
TriggerFires(ks, value, threshold) == value >= threshold /\ ~ks.active

\* a loop boundary that swallows the error
KsTriggerOnErrorIgnored(message) == UNCHANGED ksVars

\* KillSwitch.triggerOnError as a step of the kill switch
KsTriggerOnError(message) ==
    IF ~killSwitch.active
    THEN KsActivate("AUTO_ERROR", message)
    ELSE UNCHANGED ksVars

\* deactivate without its token comparison
DeactivateSucceedsAnyToken(ks, confirmation, t) ==
    /\ ks.active
    /\ ~(ks.canReactivateAt # Undefined /\ t < ks.canReactivateAt)

\* deactivate without its cooldown comparison
DeactivateSucceedsNoCooldown(ks, confirmation, t) ==
    /\ ks.active
    /\ confirmation = ConfirmToken

\* KillSwitch.deactivate: whether it resumes trading
DeactivateSucceeds(ks, confirmation, t) ==
    /\ ks.active
    /\ confirmation = ConfirmToken
    /\ ~(ks.canReactivateAt # Undefined /\ t < ks.canReactivateAt)

\* KillSwitch.setCooldown: the cooldown it stores
CooldownFor(ms) == Max(MinCooldownMs, ms)

restOfKs == <<now, ticks, orderBook, isInitialized, lastPrice, tracker, account, orders,
              openOrders, isPaperTrading, isShutdown, isRunning, cycles, logs, lastVerdict,
              parameterVars, wsClient, executionVars, emitted, metricsLog>>

Activate(trigger, reason) ==
    /\ KsActivate(trigger, reason)
    /\ UNCHANGED restOfKs

Deactivate(confirmation) ==
    /\ LET ok == DeactivateSucceeds(killSwitch, confirmation, now) IN
       /\ killSwitch' = IF ok THEN InactiveState ELSE killSwitch
       /\ deactivatedEvents' = IF ok THEN deactivatedEvents + 1 ELSE deactivatedEvents
       /\ ksCall' = [op |-> "deactivate", arg |-> confirmation,
                     wasActive |-> killSwitch.active, result |-> ok]
    /\ UNCHANGED <<cooldownMs, activatedEvents>>
    /\ UNCHANGED restOfKs

CheckDrawdownTrigger(currentDrawdownPercent, threshold) ==
    /\ IF TriggerFires(killSwitch, currentDrawdownPercent, threshold)
       THEN KsActivate("AUTO_DRAWDOWN", "Drawdown exceeded threshold")
       ELSE UNCHANGED ksVars
    /\ UNCHANGED restOfKs

CheckDailyLossTrigger(dailyLossPercent, threshold) ==
    /\ IF TriggerFires(killSwitch, dailyLossPercent, threshold)
       THEN KsActivate("AUTO_LOSS", "Daily loss exceeded threshold")
       ELSE UNCHANGED ksVars
    /\ UNCHANGED restOfKs

TriggerOnError(message) ==
    /\ KsTriggerOnError(message)
    /\ UNCHANGED restOfKs

SetCooldown(ms) ==
    /\ cooldownMs' = CooldownFor(ms)
    /\ UNCHANGED <<killSwitch, activatedEvents, deactivatedEvents, ksCall>>
    /\ UNCHANGED restOfKs

\* ------------------------------------------------------------------ clock
Tick(d) ==
    /\ ticks < MaxTicks
    /\ now' = now + d
    /\ ticks' = ticks + 1
    /\ UNCHANGED <<ksVars, orderBook, isInitialized, lastPrice, tracker, account, orders,
                   openOrders, isPaperTrading, isShutdown, isRunning, cycles, logs, lastVerdict,
                   parameterVars, wsClient, executionVars, emitted, metricsLog>>

\* the clock moves past the age at which quotes count as stale
QuoteAge ==
    /\ ticks < MaxQuoteTicks
    /\ Tick(QuoteAgeStep)

\* ------------------------------------------------------------ market feed
DepthUpdate(u, msg) ==
    /\ handleDepthUpdate(u, msg, now)
    /\ UNCHANGED <<clockVars, ksVars, lastPrice, tracker, account, orders, openOrders,
                   isPaperTrading, isShutdown, isRunning, cycles, logs, lastVerdict,
                   parameterVars, wsClient, executionVars, metricsLog>>

Trade(p) ==
    /\ handleTrade(p)
    /\ UNCHANGED <<clockVars, ksVars, bookVars, tracker, account, orders, openOrders,
                   isPaperTrading, isShutdown, isRunning, cycles, logs, lastVerdict,
                   parameterVars, wsClient, executionVars, emitted, metricsLog>>

\* ----------------------------------------------------------- Order Manager
NewOrder(id, request) ==
    [id |-> id, side |-> request.side, type |-> request.type, status |-> "PENDING",
     quantity |-> request.quantity, filledQuantity |-> 0,
     remainingQuantity |-> request.quantity, price |-> request.price,
     avgFillPrice |-> Undefined, feePaid |-> 0, decisionId |-> request.decisionId]

Cancellable == {"PENDING", "SUBMITTED", "PARTIAL"}

\* a cancelOrder that cancels every order it knows, whatever its status
cancelOrderSucceedsKnown(ords, orderId) == orderId \in DOMAIN ords

\* OrderManager.cancelOrder: whether it cancels
cancelOrderSucceeds(ords, orderId) ==
    orderId \in DOMAIN ords /\ ords[orderId].status \in Cancellable

\* OrderManager.cancelOrder: the orders it leaves
cancelOrderState(ords, orderId) ==
    IF cancelOrderSucceeds(ords, orderId)
    THEN [ords EXCEPT ![orderId].status = "CANCELLED"]
    ELSE ords

\* OrderManager.cancelAllOrders: cancelOrder for each id of openOrders
cancelAllOrdersState(ords, open) ==
    [id \in DOMAIN ords |-> IF id \in open THEN cancelOrderState(ords, id)[id] ELSE ords[id]]

cancelAllOrdersOpen(ords, open) == {id \in open : ~cancelOrderSucceeds(ords, id)}

\* OrderManager.simulateOrder, after the submit latency: whether the order is
\* handed to fillOrder, and at which price
SimulateFills(o, book) ==
    \/ o.type = "MARKET"
    \/ /\ o.type \in {"LIMIT", "POST_ONLY"}
       /\ o.price # Undefined
       /\ \/ o.side = "BUY" /\ o.price >= getBestAsk(book)
          \/ o.side = "SELL" /\ o.price <= getBestBid(book)

SimulateFillPrice(o, book) ==
    IF o.type = "MARKET"
    THEN IF o.side = "BUY" THEN getBestAsk(book) ELSE getBestBid(book)
    ELSE o.price

\* OrderManager.fillOrder
fillOrder(o, fillPrice) ==
    [o EXCEPT !.status = "FILLED", !.filledQuantity = o.quantity, !.remainingQuantity = 0,
              !.avgFillPrice = fillPrice,
              !.feePaid = (Notional(fillPrice, o.quantity) * 5) \div 10000]

\* ------------------------------------------------------ Order Retry Manager
\* DEFAULT_CONFIG of the retry manager (the delays only order the timers)
DEFAULT_CONFIG == [maxRetries |-> 3, retryDelayMs |-> 500, exponentialBackoff |-> TRUE]

OrderIds == 1..MaxOrders
NoEvents == [id \in OrderIds |-> 0]
Emit(e, name, id) == [e EXCEPT ![name][id] = @ + 1]

\* Map.delete and Map.set on pendingRetries
MapDelete(m, k) == [j \in DOMAIN m \ {k} |-> m[j]]
MapSet(m, k, v) == [j \in DOMAIN m \cup {k} |-> IF j = k THEN v ELSE m[j]]

\* The retry manager's state and the event counts, handled as one value r.
\* An entry of pendingRetries carries, besides the request, the attempts and
\* the status, the id of the order submitWithRetry was first called for.
RetryState == [pendingRetries |-> pendingRetries, retryTimers |-> retryTimers,
               emitted |-> emitted]
PendingRetry(request, attempts, logical) ==
    [request |-> request, attempts |-> attempts, status |-> "PENDING", logical |-> logical]

\* scheduleRetry: the entry turns RETRYING and a timer holds the entry
scheduleRetry(r, orderId) ==
    IF orderId \notin DOMAIN r.pendingRetries THEN r
    ELSE LET pending == r.pendingRetries[orderId]
         IN [r EXCEPT !.pendingRetries[orderId].status = "RETRYING",
                      !.retryTimers = @ \cup {[orderId |-> orderId,
                                               request |-> pending.request,
                                               attempts |-> pending.attempts,
                                               logical |-> pending.logical]}]

\* the retry manager's listener for 'orderCancelled'
onOrderCancelled(r, orderId) ==
    IF orderId \in DOMAIN r.pendingRetries /\ r.pendingRetries[orderId].status = "PENDING"
    THEN IF r.pendingRetries[orderId].attempts < retryConfig.maxRetries
         THEN scheduleRetry(r, orderId)
         ELSE [r EXCEPT !.pendingRetries[orderId].status = "FAILED",
                        !.emitted = Emit(@, "maxRetriesReached", orderId)]
    ELSE r

\* the retry manager's listener for 'orderFilled'
onOrderFilled(r, orderId) ==
    IF orderId \in DOMAIN r.pendingRetries
    THEN [r EXCEPT !.pendingRetries = MapDelete(@, orderId)]
    ELSE r

\* cancelOrder emits 'orderCancelled' when it cancels, and the listener runs
cancelOrderEmits(r, ords, orderId) ==
    IF cancelOrderSucceeds(ords, orderId)
    THEN onOrderCancelled([r EXCEPT !.emitted = Emit(@, "orderCancelled", orderId)], orderId)
    ELSE r

RECURSIVE cancelAllOrdersEmits(_, _, _)
\* cancelAllOrders: the events of cancelOrder for each id of openOrders
cancelAllOrdersEmits(r, ords, open) ==
    IF open = {} THEN r
    ELSE LET id == CHOOSE i \in open : \A j \in open : i <= j
         IN cancelAllOrdersEmits(cancelOrderEmits(r, ords, id), ords, open \ {id})


\* -------------------------------------------------------- Emergency Shutdown
EmergencyShutdownExecute(reason) ==
    /\ IF isShutdown
       THEN UNCHANGED <<ksVars, isShutdown, orders, openOrders, account, pendingRetries,
                        retryTimers, emitted>>
       ELSE LET r == cancelAllOrdersEmits(RetryState, orders, openOrders)
            IN /\ isShutdown' = TRUE
               /\ KsActivate("SYSTEM", "Emergency shutdown")
               /\ orders' = cancelAllOrdersState(orders, openOrders)
               /\ openOrders' = cancelAllOrdersOpen(orders, openOrders)
               /\ pendingRetries' = r.pendingRetries
               /\ retryTimers' = r.retryTimers
               /\ emitted' = r.emitted
               /\ account' = updateUnrealizedPnl(account, lastPrice)
    /\ omCall' = [op |-> "execute", result |-> IF isShutdown THEN "already" ELSE "shutdown"]
    /\ UNCHANGED <<clockVars, bookVars, lastPrice, tracker, isPaperTrading, isRunning,
                   cycles, logs, lastVerdict, parameterVars, wsClient, retryConfig, submits,
                   fillCheck, metricsLog>>

\* ------------------------------------------------------------ Decision API
Actions == {"BUY", "SELL", "HOLD", "EXIT", "CLOSE_LONG", "CLOSE_SHORT"}
OrderTypes == {"LIMIT", "MARKET", "POST_ONLY"}

Reply(kind, action, size, orderType, limitPrice, holdTimeMs, confidence) ==
    [kind |-> kind, action |-> action, size |-> size, orderType |-> orderType,
     limitPrice |-> limitPrice, holdTimeMs |-> holdTimeMs, confidence |-> confidence]

\* What one HTTP attempt of callAI can come back with: a JSON content, or a
\* timeout / transport error / empty content.
JsonReplies ==
    { Reply("json", "BUY", 1, "MARKET", Undefined, 10000, 8),
      Reply("json", "BUY", 6, "MARKET", Undefined, 10000, 8),
      Reply("json", "SELL", 1, "LIMIT", 20020, 10000, 8),
      Reply("json", "BUY", 1, "LIMIT", 19000, 10000, 8),
      Reply("json", "BUY", 1, "MARKET", Undefined, 10000, 2),
      Reply("json", "HOLD", 0, "LIMIT", Undefined, 10000, 8),
      Reply("json", "EXIT", 0, "MARKET", Undefined, 10000, 8),
      Reply("json", "BUY", 1, "MARKET", Undefined, 1000, 8),
      Reply("json", "JUMP", 1, "MARKET", Undefined, 10000, 8) }
FailedReplies ==
    { Reply(k, "HOLD", 0, "LIMIT", Undefined, 0, 0) : k \in {"timeout", "transport", "empty"} }
\* the replies the decision service gives the running engine
EngineReplies ==
    { Reply("json", "BUY", 6, "MARKET", Undefined, 10000, 8),
      Reply("json", "HOLD", 0, "LIMIT", Undefined, 10000, 8),
      Reply("json", "EXIT", 0, "MARKET", Undefined, 10000, 8),
      Reply("json", "BUY", 1, "MARKET", Undefined, 1000, 8) }
AttemptOutcomes == EngineReplies \cup FailedReplies
\* the size PositionSizer recommends
SizingInputs == {1, 5}

\* AIDecisionResponseSchema.parse succeeds (size at most 10 BTC, confidence in tenths)
ResponseSchemaOk(r) ==
    /\ r.kind = "json"
    /\ r.action \in Actions
    /\ r.size >= 0 /\ r.size <= 10 * QtyPerBTC
    /\ r.orderType \in OrderTypes
    /\ (r.limitPrice = Undefined \/ r.limitPrice > 0)
    /\ r.holdTimeMs >= 5000 /\ r.holdTimeMs <= 300000
    /\ r.confidence >= 0 /\ r.confidence <= 10

\* requestDecision: the validated response with hold time and size bounded
BoundResponse(requestId, r) ==
    [requestId |-> requestId, action |-> r.action,
     size |-> Min(getRulebook.maxPositionSizeBTC, r.size),
     orderType |-> r.orderType, limitPrice |-> r.limitPrice,
     holdTimeMs |-> Max(getRulebook.minHoldTimeMs, Min(getRulebook.maxHoldTimeMs, r.holdTimeMs)),
     confidence |-> r.confidence]

\* DecisionAPI.createSafeHoldDecision
createSafeHoldDecision(requestId) ==
    [requestId |-> requestId, action |-> "HOLD", size |-> 0, orderType |-> "LIMIT",
     limitPrice |-> Undefined, holdTimeMs |-> getRulebook.minHoldTimeMs, confidence |-> 0]

NoDecision ==
    [requestId |-> 0, action |-> "none", size |-> 0, orderType |-> "none",
     limitPrice |-> Undefined, holdTimeMs |-> 0, confidence |-> 0]

\* AIDecisionRequestSchema.parse(request) succeeds: the market snapshot needs a
\* positive price, bid and ask, and the feature vector a positive atr14
RequestSchemaOk(price, bid, ask, atrPositive) ==
    price > 0 /\ bid > 0 /\ ask > 0 /\ atrPositive

\* requestDecision throws before it reaches its try block
requestDecisionThrows(price, bid, ask, atrPositive) ==
    ~RequestSchemaOk(price, bid, ask, atrPositive)

\* ---------------------------------------------------------- Trading Engine
\* The locals of one runDecisionCycle call. riskMetrics is the local of that
\* name; bookAtStart is the book as it stood when the cycle read its state
\* (the cycle itself keeps only its best bid and ask, in marketSnapshot).
\* Both stay as they were read.
IdleCycle ==
    [pc |-> "idle", outcome |-> "none", requested |-> FALSE, evaluated |-> FALSE,
     position |-> createEmptyPosition, decision |-> NoDecision, attempt |-> 0,
     orderId |-> 0, size |-> 0, fillPrice |-> 0,
     riskMetrics |-> createInitialRiskMetrics, bookAtStart |-> createEmptyOrderBook(StartTime)]

Finished(cy, outcome) ==
    [cy EXCEPT !.pc = "done", !.outcome = outcome, !.position = createEmptyPosition,
               !.decision = NoDecision, !.attempt = 0, !.orderId = 0, !.size = 0,
               !.fillPrice = 0]

\* a cycle that does not look at the kill switch
SkipsOnKillSwitchNever == FALSE

\* runDecisionCycle: the guards that end the cycle before any work
SkipsOnKillSwitch == isActive
SkipsOnBookNotReady == ~isReady

\* DecisionLogger.log
LogEntry(decision, veto, actionTaken) ==
    [requestId |-> decision.requestId, response |-> decision, riskVeto |-> veto,
     actionTaken |-> actionTaken]
\* a logger that drops the record
logAppendDropped(entries, entry) == entries

logAppend(entries, entry) ==
    LET all == Append(entries, entry)
    IN IF Len(all) > maxLogs THEN SubSeq(all, Len(all) - maxLogs + 1, Len(all)) ELSE all

\* execution that ignores the verdict
ShouldExecuteIgnoringVeto(veto, decision) == decision.action # "HOLD"

\* runDecisionCycle: the condition under which executeDecision is called
ShouldExecute(veto, decision) == ~veto.vetoed /\ decision.action # "HOLD"

NoRequest == [side |-> "none", type |-> "none", quantity |-> 0, price |-> Undefined,
              decisionId |-> 0]

\* executeDecision: the order request it submits, NoRequest when it submits none
OrderRequestFor(decision, position, sizingBTC) ==
    IF decision.action \in {"BUY", "SELL"}
    THEN LET size == Min(decision.size, sizingBTC)
         IN IF size > 0
            THEN [side |-> decision.action, type |-> decision.orderType, quantity |-> size,
                  price |-> decision.limitPrice, decisionId |-> decision.requestId]
            ELSE NoRequest
    ELSE IF decision.action \in {"EXIT", "CLOSE_LONG", "CLOSE_SHORT"} /\ position.side # "FLAT"
         THEN [side |-> IF position.side = "LONG" THEN "SELL" ELSE "BUY", type |-> "MARKET",
               quantity |-> position.quantity, price |-> Undefined,
               decisionId |-> decision.requestId]
         ELSE NoRequest

\* TradingEngine.start from setMode on: the order manager's mode is set, and
\* once waitForOrderBook has seen the book ready the decision loop starts
Start(paperTrading) ==
    /\ ~isRunning
    /\ isReady
    /\ isPaperTrading' = paperTrading
    /\ isRunning' = TRUE
    /\ UNCHANGED <<clockVars, ksVars, bookVars, lastPrice, tracker, account, orders,
                   openOrders, isShutdown, cycles, logs, lastVerdict,
                   parameterVars, wsClient, executionVars, emitted, metricsLog>>

\* A timer tick: runDecisionCycle up to its first suspension, the await of
\* the decision request.  avoid is the news flag, atrPositive whether the
\* feature vector is schema-valid.
CycleStart(c, avoid, atrPositive) ==
    /\ isRunning
    /\ cycles[c].pc = "idle"
    /\ \A b \in 1..(c - 1) : cycles[b].pc # "idle"
    /\ UNCHANGED <<clockVars, bookVars, lastPrice, account, orders, openOrders,
                   isPaperTrading, isShutdown, isRunning, logs, lastVerdict,
                   parameterVars, wsClient, executionVars, emitted>>
    /\ IF SkipsOnKillSwitch
       THEN /\ cycles' = [cycles EXCEPT ![c] = Finished(@, "skippedKillSwitch")]
            /\ UNCHANGED <<ksVars, tracker, metricsLog>>
       ELSE IF SkipsOnBookNotReady
       THEN /\ cycles' = [cycles EXCEPT ![c] = Finished(@, "skippedNotReady")]
            /\ UNCHANGED <<ksVars, tracker, metricsLog>>
       ELSE /\ tracker' = updateOrderRates(tracker, now)
            /\ metricsLog' = LogRead(metricsLog, now, updateOrderRates(tracker, now).metrics)
            /\ IF avoid
               THEN /\ cycles' = [cycles EXCEPT ![c] = Finished(@, "skippedNews")]
                    /\ UNCHANGED ksVars
               ELSE IF requestDecisionThrows(lastPrice, getBestBid(orderBook),
                                             getBestAsk(orderBook), atrPositive)
               THEN /\ cycles' = [cycles EXCEPT ![c] =
                                    Finished([@ EXCEPT !.requested = TRUE], "threw")]
                    /\ KsTriggerOnError("Critical error: invalid decision request")
               ELSE /\ cycles' = [cycles EXCEPT ![c] =
                                    [@ EXCEPT !.pc = "awaitAI", !.requested = TRUE,
                                              !.position = account.position,
                                              !.riskMetrics =
                                                  updateOrderRates(tracker, now).metrics,
                                              !.bookAtStart = orderBook]]
                    /\ UNCHANGED ksVars

\* The rest of runDecisionCycle once requestDecision has returned decision:
\* veto check, audit log, and executeDecision up to the submit latency.
Decide(c, decision, sizingBTC) ==
    LET tr1 == updateOrderRates(tracker, now)
        veto == evaluate(decision, orderBook, lastPrice, isActive, tr1.metrics, now)
        execute == ShouldExecute(veto, decision)
        request == OrderRequestFor(decision, cycles[c].position, sizingBTC)
        orderId == Len(orders) + 1
    IN /\ tracker' = tr1
       /\ metricsLog' = LogRead(metricsLog, now, tr1.metrics)
       /\ logs' = logAppend(logs, LogEntry(decision, veto, execute))
       /\ UNCHANGED <<clockVars, bookVars, lastPrice, account, openOrders, isPaperTrading,
                      isShutdown, isRunning, lastVerdict,
                      parameterVars, wsClient, executionVars, emitted>>
       /\ IF ~execute \/ request = NoRequest
          THEN /\ cycles' = [cycles EXCEPT ![c] = Finished([@ EXCEPT !.evaluated = TRUE],
                                                           "completed")]
               /\ UNCHANGED <<ksVars, orders>>
          ELSE /\ orders' = Append(orders, NewOrder(orderId, request))
               /\ IF isPaperTrading
                  THEN /\ cycles' = [cycles EXCEPT ![c] =
                                       [@ EXCEPT !.pc = "awaitSubmit", !.evaluated = TRUE,
                                                 !.decision = decision, !.orderId = orderId,
                                                 !.size = request.quantity]]
                       /\ UNCHANGED ksVars
                  ELSE /\ cycles' = [cycles EXCEPT ![c] =
                                       Finished([@ EXCEPT !.evaluated = TRUE], "threw")]
                       /\ KsTriggerOnError("Critical error: Live trading not implemented")

\* One HTTP attempt of callAI completes with outcome out; requestDecision
\* returns on a valid response or once the attempts are used up.
AIAttempt(c, out, sizingBTC) ==
    /\ cycles[c].pc = "awaitAI"
    /\ IF ResponseSchemaOk(out)
       THEN Decide(c, BoundResponse(c, out), sizingBTC)
       ELSE IF cycles[c].attempt < maxRetries
       THEN /\ cycles' = [cycles EXCEPT ![c].attempt = @ + 1]
            /\ UNCHANGED <<clockVars, ksVars, bookVars, lastPrice, tracker, account, orders,
                           openOrders, isPaperTrading, isShutdown, isRunning, logs,
                           lastVerdict,
                           parameterVars, wsClient, executionVars, emitted, metricsLog>>
       ELSE Decide(c, createSafeHoldDecision(c), sizingBTC)

\* simulateOrder after its submit latency
SimSubmitted(c) ==
    /\ cycles[c].pc = "awaitSubmit"
    /\ LET id == cycles[c].orderId
           o == [orders[id] EXCEPT !.status = "SUBMITTED"]
       IN /\ orders' = [orders EXCEPT ![id] = o]
          /\ openOrders' = openOrders \cup {id}
          /\ cycles' = [cycles EXCEPT ![c] =
                          IF SimulateFills(o, orderBook)
                          THEN [@ EXCEPT !.pc = "awaitFill",
                                         !.fillPrice = SimulateFillPrice(o, orderBook)]
                          ELSE Finished(@, "completed")]
    /\ UNCHANGED <<clockVars, ksVars, bookVars, lastPrice, tracker, account, isPaperTrading,
                   isShutdown, isRunning, logs, lastVerdict,
                   parameterVars, wsClient, executionVars, emitted, metricsLog>>

\* fillOrder after its fill latency, and the rest of executeDecision
SimFilled(c) ==
    /\ cycles[c].pc = "awaitFill"
    /\ LET cy == cycles[c]
           id == cy.orderId
           price == cy.fillPrice
           entry == cy.decision.action \in {"BUY", "SELL"}
           qty == IF entry THEN cy.size ELSE cy.position.quantity
           fee == calculateFee(Notional(price, qty), FALSE)
           closed == closePosition(account, price, fee)
           settled == updateUnrealizedPnl(closed, lastPrice)
       IN /\ orders' = [orders EXCEPT ![id] = fillOrder(@, price)]
          /\ openOrders' = openOrders \ {id}
          /\ IF price = Undefined
             THEN /\ cycles' = [cycles EXCEPT ![c] = Finished(@, "completed")]
                  /\ UNCHANGED <<ksVars, account, tracker>>
             ELSE IF entry /\ openPositionThrows(account.balance, qty, price)
             THEN /\ cycles' = [cycles EXCEPT ![c] = Finished(@, "threw")]
                  /\ KsTriggerOnError("Critical error: Insufficient balance for position")
                  /\ UNCHANGED <<account, tracker>>
             ELSE IF entry
             THEN /\ cycles' = [cycles EXCEPT ![c] = Finished(@, "completed")]
                  /\ account' = openPosition(account,
                                             IF cy.decision.action = "BUY" THEN "LONG" ELSE "SHORT",
                                             qty, price, fee)
                  /\ tracker' = recordOrderPlaced(tracker, now)
                  /\ UNCHANGED ksVars
             ELSE /\ cycles' = [cycles EXCEPT ![c] = Finished(@, "completed")]
                  /\ account' = settled
                  /\ tracker' = recordTradeClose(tracker,
                                                 closePnl(account.position, price, fee).netPnl,
                                                 settled.balance.totalEquity)
                  /\ UNCHANGED ksVars
          /\ metricsLog' =
                IF price = Undefined \/ (entry /\ openPositionThrows(account.balance, qty, price))
                THEN metricsLog
                ELSE IF entry THEN LogPlaced(metricsLog, now)
                ELSE LogClose(metricsLog, closePnl(account.position, price, fee).netPnl,
                              settled.balance.totalEquity)
    /\ UNCHANGED <<clockVars, bookVars, lastPrice, isPaperTrading, isShutdown, isRunning,
                   logs, lastVerdict,
                   parameterVars, wsClient, executionVars, emitted>>

\* ------------------------------------------- the risk interface, called directly
\* VetoGate.forceApprove
ForceApprove(decisionId) ==
    /\ lastVerdict' = forceApprove(decisionId, isActive)
    /\ UNCHANGED <<clockVars, ksVars, bookVars, lastPrice, tracker, account, orders,
                   openOrders, isPaperTrading, isShutdown, isRunning, cycles, logs,
                   parameterVars, wsClient, executionVars, emitted, metricsLog>>

\* VetoGate.evaluate on the current book, last price and risk metrics
Evaluate(decision) ==
    LET tr1 == updateOrderRates(tracker, now)
    IN /\ tracker' = tr1
       /\ metricsLog' = LogRead(metricsLog, now, tr1.metrics)
       /\ lastVerdict' = evaluate(decision, orderBook, lastPrice, isActive, tr1.metrics, now)
       /\ UNCHANGED <<clockVars, ksVars, bookVars, lastPrice, account, orders, openOrders,
                      isPaperTrading, isShutdown, isRunning, cycles, logs,
                      parameterVars, wsClient, executionVars, emitted>>

ClosePnls == {-300 * MoneyPerUSD, 100 * MoneyPerUSD}

\* RiskMetricsTracker.recordTradeClose with the equity the close leaves
RecordTradeClose(pnl) ==
    /\ tracker.metrics.dailyTrades < MaxCloses
    /\ tracker' = recordTradeClose(tracker, pnl,
                                   tracker.startOfDayEquity + tracker.metrics.dailyPnl + pnl)
    /\ metricsLog' = LogClose(metricsLog, pnl,
                              tracker.startOfDayEquity + tracker.metrics.dailyPnl + pnl)
    /\ UNCHANGED <<clockVars, ksVars, bookVars, lastPrice, account, orders, openOrders,
                   isPaperTrading, isShutdown, isRunning, cycles, logs, lastVerdict,
                   parameterVars, wsClient, executionVars, emitted>>

\* ------------------------------------- the execution interface, called directly
\* The request of the callers: a limit sell that fills at once when the best
\* bid has reached it and rests otherwise; cancelAndReplace moves the limit to
\* NewPrices, above the bids of the feed.
OrderRequests ==
    {[side |-> "SELL", type |-> "LIMIT", quantity |-> 1, price |-> 19995,
      decisionId |-> Undefined]}
NewPrices == {20005}
RetryLimits == {1}

NoSubmit == [pc |-> "returned", caller |-> "none", request |-> NoRequest, oldId |-> 0,
             attempts |-> 0, logical |-> 0, fillPrice |-> Undefined]
IdleFillCheck == [pc |-> "idle", id |-> 0, bestBid |-> 0, bestAsk |-> 0, seen |-> {}]
OmCall(op, result) == [op |-> op, result |-> result]
EmptyMap == [j \in {} |-> NoSubmit]

restOfExecution == <<now, ticks, ksVars, orderBook, isInitialized, lastPrice, tracker, account,
                     isShutdown, isRunning, cycles, logs, lastVerdict, parameterVars, wsClient,
                     metricsLog>>

\* OrderManager.setMode, called as TradingEngine.start calls it: before any
\* order is submitted
SetMode(paperTrading) ==
    /\ orders = <<>>
    /\ isPaperTrading' = paperTrading
    /\ UNCHANGED <<restOfExecution, orders, openOrders, executionVars, emitted>>

\* OrderRetryManager.configure, called before any order is submitted
Configure(limit) ==
    /\ orders = <<>>
    /\ retryConfig' = [retryConfig EXCEPT !.maxRetries = limit]
    /\ UNCHANGED <<restOfExecution, orders, openOrders, isPaperTrading, pendingRetries,
                   retryTimers, submits, fillCheck, emitted, omCall>>

\* submitOrder up to its first suspension: the order is stored as PENDING, and
\* the call sleeps in simulateOrder (paper) or throws in submitToExchange (live)
submitOrderBegins(request, caller, oldId, attempts, logical) ==
    LET id == Len(orders) + 1
    IN /\ orders' = Append(orders, NewOrder(id, request))
       /\ submits' = Append(submits,
                            [pc |-> IF isPaperTrading THEN "awaitSubmit" ELSE "threw",
                             caller |-> caller, request |-> request, oldId |-> oldId,
                             attempts |-> attempts,
                             logical |-> IF logical = 0 THEN id ELSE logical,
                             fillPrice |-> Undefined])

\* what the caller of submitOrder does with the order it gets back
submitOrderReturns(r, id) ==
    LET sub == submits[id]
    IN IF sub.caller = "submitWithRetry"
       THEN [r EXCEPT !.pendingRetries = MapSet(@, id, PendingRetry(sub.request, 1, sub.logical))]
       ELSE IF sub.caller \in {"cancelAndReplace", "retry"}
       THEN [r EXCEPT !.pendingRetries =
                          MapSet(MapDelete(@, sub.oldId), id,
                                 PendingRetry(sub.request, sub.attempts + 1, sub.logical))]
       ELSE r

\* OrderRetryManager.submitWithRetry: in live mode the error of submitOrder
\* is logged and thrown on
SubmitWithRetry(request) ==
    /\ Len(orders) < MaxOrders
    /\ submitOrderBegins(request, "submitWithRetry", 0, 0, 0)
    /\ UNCHANGED <<restOfExecution, openOrders, isPaperTrading, retryConfig, pendingRetries,
                   retryTimers, fillCheck, emitted, omCall>>

\* simulateOrder after its submit latency
SubmitLatency(id) ==
    /\ id \in DOMAIN submits
    /\ submits[id].pc = "awaitSubmit"
    /\ LET o == [orders[id] EXCEPT !.status = "SUBMITTED"]
           r == submitOrderReturns(RetryState, id)
       IN /\ orders' = [orders EXCEPT ![id] = o]
          /\ openOrders' = openOrders \cup {id}
          /\ IF SimulateFills(o, orderBook)
             THEN /\ submits' = [submits EXCEPT ![id].pc = "awaitFill",
                                                ![id].fillPrice = SimulateFillPrice(o, orderBook)]
                  /\ UNCHANGED pendingRetries
             ELSE /\ submits' = [submits EXCEPT ![id].pc = "returned"]
                  /\ pendingRetries' = r.pendingRetries
    /\ UNCHANGED <<restOfExecution, isPaperTrading, retryConfig, retryTimers, fillCheck,
                   emitted, omCall>>

\* fillOrder after its fill latency, called by simulateOrder
FillLatency(id) ==
    /\ id \in DOMAIN submits
    /\ submits[id].pc = "awaitFill"
    /\ LET r == submitOrderReturns(onOrderFilled(RetryState, id), id)
       IN /\ orders' = [orders EXCEPT ![id] = fillOrder(@, submits[id].fillPrice)]
          /\ openOrders' = openOrders \ {id}
          /\ submits' = [submits EXCEPT ![id].pc = "returned"]
          /\ pendingRetries' = r.pendingRetries
    /\ UNCHANGED <<restOfExecution, isPaperTrading, retryConfig, retryTimers, fillCheck,
                   emitted, omCall>>

\* OrderManager.cancelOrder
CancelOrder(orderId) ==
    LET r == cancelOrderEmits(RetryState, orders, orderId)
    IN /\ orders' = cancelOrderState(orders, orderId)
       /\ openOrders' = IF cancelOrderSucceeds(orders, orderId)
                        THEN openOrders \ {orderId} ELSE openOrders
       /\ pendingRetries' = r.pendingRetries
       /\ retryTimers' = r.retryTimers
       /\ emitted' = r.emitted
       /\ omCall' = OmCall("cancelOrder",
                           IF cancelOrderSucceeds(orders, orderId) THEN "true" ELSE "false")
       /\ UNCHANGED <<restOfExecution, isPaperTrading, retryConfig, submits, fillCheck>>

\* OrderManager.cancelAllOrders
CancelAllOrders ==
    LET r == cancelAllOrdersEmits(RetryState, orders, openOrders)
    IN /\ openOrders # {}
       /\ orders' = cancelAllOrdersState(orders, openOrders)
       /\ openOrders' = cancelAllOrdersOpen(orders, openOrders)
       /\ pendingRetries' = r.pendingRetries
       /\ retryTimers' = r.retryTimers
       /\ emitted' = r.emitted
       /\ UNCHANGED <<restOfExecution, isPaperTrading, retryConfig, submits, fillCheck, omCall>>

\* checkPendingFills: whether the loop hands order o to fillOrder
checkFills(o, bestBid, bestAsk) ==
    /\ o.status = "SUBMITTED"
    /\ o.type # "MARKET"
    /\ o.price # Undefined
    /\ \/ o.side = "BUY" /\ o.price >= bestAsk
       \/ o.side = "SELL" /\ o.price <= bestBid

\* the open orders the loop of checkPendingFills has still to reach and will fill
checkCandidates(ords, open, fc) ==
    {id \in open \ fc.seen : checkFills(ords[id], fc.bestBid, fc.bestAsk)}

\* OrderManager.checkPendingFills up to its first fill latency
CheckPendingFills ==
    /\ fillCheck.pc = "idle"
    /\ LET fc == [IdleFillCheck EXCEPT !.bestBid = getBestBid(orderBook),
                                       !.bestAsk = getBestAsk(orderBook)]
           candidates == checkCandidates(orders, openOrders, fc)
       IN IF ~isPaperTrading \/ candidates = {}
          THEN UNCHANGED fillCheck
          ELSE \E id \in candidates :
                  fillCheck' = [fc EXCEPT !.pc = "awaitFill", !.id = id, !.seen = {id}]
    /\ UNCHANGED <<restOfExecution, orders, openOrders, isPaperTrading, retryConfig,
                   pendingRetries, retryTimers, submits, emitted, omCall>>

\* fillOrder after its fill latency, called by checkPendingFills, and the
\* loop up to its next fill latency
CheckFillLatency ==
    /\ fillCheck.pc = "awaitFill"
    /\ LET id == fillCheck.id
           filled == [orders EXCEPT ![id] = fillOrder(@, @.price)]
           open == openOrders \ {id}
           candidates == checkCandidates(filled, open, fillCheck)
       IN /\ orders' = filled
          /\ openOrders' = open
          /\ pendingRetries' = onOrderFilled(RetryState, id).pendingRetries
          /\ IF candidates = {}
             THEN fillCheck' = IdleFillCheck
             ELSE \E next \in candidates :
                     fillCheck' = [fillCheck EXCEPT !.id = next, !.seen = @ \cup {next}]
    /\ UNCHANGED <<restOfExecution, isPaperTrading, retryConfig, retryTimers, submits,
                   emitted, omCall>>

\* cancelAndReplace returns null before it submits anything
cancelAndReplaceAbortsUntrackedOnly(tracked, ords, orderId) ==
    orderId \notin DOMAIN tracked

\* cancelAndReplace returns null before it submits anything: the id is not
\* tracked, or cancelOrder returned false
cancelAndReplaceAborts(tracked, ords, orderId) ==
    orderId \notin DOMAIN tracked \/ ~cancelOrderSucceeds(ords, orderId)

\* OrderRetryManager.cancelAndReplace up to the latency of its submitOrder
CancelAndReplace(orderId, newPrice) ==
    IF cancelAndReplaceAborts(pendingRetries, orders, orderId)
    THEN /\ omCall' = OmCall("cancelAndReplace", "null")
         /\ UNCHANGED <<restOfExecution, orders, openOrders, isPaperTrading, retryConfig,
                        pendingRetries, retryTimers, submits, fillCheck, emitted>>
    ELSE LET pending == pendingRetries[orderId]
             r == cancelOrderEmits(RetryState, orders, orderId)
             cancelled == cancelOrderState(orders, orderId)
             newRequest == [pending.request EXCEPT !.price = newPrice]
             id == Len(orders) + 1
         IN /\ Len(orders) < MaxOrders
            /\ orders' = Append(cancelled, NewOrder(id, newRequest))
            /\ openOrders' = openOrders \ {orderId}
            /\ submits' = Append(submits,
                                 [pc |-> IF isPaperTrading THEN "awaitSubmit" ELSE "threw",
                                  caller |-> "cancelAndReplace", request |-> newRequest,
                                  oldId |-> orderId, attempts |-> pending.attempts,
                                  logical |-> pending.logical, fillPrice |-> Undefined])
            /\ pendingRetries' = r.pendingRetries
            /\ retryTimers' = r.retryTimers
            /\ emitted' = IF isPaperTrading THEN r.emitted
                          ELSE Emit(r.emitted, "replaceFailed", orderId)
            /\ omCall' = OmCall("cancelAndReplace",
                                IF isPaperTrading THEN "awaiting" ELSE "null")
            /\ UNCHANGED <<restOfExecution, isPaperTrading, retryConfig, fillCheck>>

\* the timer of scheduleRetry fires: submitOrder up to its latency (paper), or
\* the catch branch (live)
RetryTimer(timer) ==
    /\ timer \in retryTimers
    /\ Len(orders) < MaxOrders
    /\ retryTimers' = retryTimers \ {timer}
    /\ submitOrderBegins(timer.request, "retry", timer.orderId, timer.attempts, timer.logical)
    /\ IF isPaperTrading
       THEN UNCHANGED <<pendingRetries, emitted>>
       ELSE /\ pendingRetries' = IF timer.orderId \in DOMAIN pendingRetries
                                 THEN [pendingRetries EXCEPT ![timer.orderId].status = "FAILED"]
                                 ELSE pendingRetries
            /\ emitted' = Emit(emitted, "retryFailed", timer.orderId)
    /\ UNCHANGED <<restOfExecution, openOrders, isPaperTrading, retryConfig, fillCheck, omCall>>

\* ------------------------------------------------------- Parameter Manager
\* DEFAULT_PARAMETERS, reduced to the timing parameters
DEFAULT_PARAMETERS ==
    [minHoldTimeMs |-> 5000, maxHoldTimeMs |-> 300000, decisionIntervalMs |-> 1000]

ParameterSet(version, parameters, status) ==
    [version |-> version, parameters |-> parameters, status |-> status]
Change(parameter, newValue) == [parameter |-> parameter, newValue |-> newValue]

\* the change lists of the proposals: within the rulebook's hold-time limits,
\* below the minimum, and naming a key of the rulebook
ProposedChanges ==
    {<<Change("minHoldTimeMs", 6000)>>, <<Change("minHoldTimeMs", 1000)>>,
     <<Change("maxHoldTimeMs", 200000), Change("maxPositionSizeBTC", 10)>>}
ProposalIds == 1..MaxProposals
activeVersion == versions[Len(versions)]

\* proposeUpdate: the violations it finds against the rulebook's limits
Violations(rules, changes) ==
    {i \in 1..Len(changes) :
        \/ changes[i].parameter = "minHoldTimeMs" /\ changes[i].newValue < rules.minHoldTimeMs
        \/ changes[i].parameter = "maxHoldTimeMs" /\ changes[i].newValue > rules.maxHoldTimeMs}

RECURSIVE ApplyChanges(_, _)
\* approveProposal: the loop that applies the changes to the new version
ApplyChanges(parameters, changes) ==
    IF changes = <<>> THEN parameters
    ELSE LET change == Head(changes)
             applied == IF change.parameter \in DOMAIN parameters
                        THEN [parameters EXCEPT ![change.parameter] = change.newValue]
                        ELSE parameters
         IN ApplyChanges(applied, Tail(changes))

\* an approval whose apply loop writes the rules it holds as well
approveProposalRulesWritten(rules, changes) == ApplyChanges(rules, changes)

\* approveProposal: the rules it holds through the RulebookEngine; the apply
\* loop writes the new version's parameters only
approveProposalRules(rules, changes) == rules

restOfParameters == <<now, ticks, ksVars, orderBook, isInitialized, lastPrice, tracker, account,
                      orders, openOrders, isPaperTrading, isShutdown, isRunning, cycles, logs,
                      lastVerdict, executionVars, emitted, metricsLog, wsClient>>

\* ParameterManager.proposeUpdate
ProposeUpdate(changes) ==
    /\ \E proposalId \in ProposalIds \ DOMAIN pendingProposals :
          pendingProposals' = IF Violations(getRulebook, changes) # {}
                              THEN pendingProposals
                              ELSE MapSet(pendingProposals, proposalId, changes)
    /\ UNCHANGED <<restOfParameters, rulebook, versions>>

\* ParameterManager.approveProposal
ApproveProposal(proposalId) ==
    /\ Len(versions) < MaxVersions
    /\ IF proposalId \notin DOMAIN pendingProposals
       THEN UNCHANGED <<rulebook, versions, pendingProposals>>
       ELSE LET changes == pendingProposals[proposalId]
                newVersion == ParameterSet(activeVersion.version + 1,
                                           ApplyChanges(activeVersion.parameters, changes),
                                           "ACTIVE")
            IN /\ versions' = Append([versions EXCEPT ![Len(versions)].status = "APPROVED"],
                                     newVersion)
               /\ pendingProposals' = MapDelete(pendingProposals, proposalId)
               /\ rulebook' = approveProposalRules(rulebook, changes)
    /\ UNCHANGED restOfParameters

\* ParameterManager.rejectProposal
RejectProposal(proposalId) ==
    /\ pendingProposals' = MapDelete(pendingProposals, proposalId)
    /\ UNCHANGED <<restOfParameters, rulebook, versions>>

\* ParameterManager.rollback
Rollback(targetVersion) ==
    /\ Len(versions) < MaxVersions
    /\ LET found == {i \in 1..Len(versions) : versions[i].version = targetVersion}
       IN IF found = {}
          THEN UNCHANGED versions
          ELSE LET target == versions[FindIndex(found)]
                   rollbackVersion == ParameterSet(activeVersion.version + 1,
                                                   target.parameters, "ACTIVE")
               IN versions' = Append([versions EXCEPT ![Len(versions)].status = "ROLLED_BACK"],
                                     rollbackVersion)
    /\ UNCHANGED <<restOfParameters, rulebook, pendingProposals>>

\* ------------------------------------------------- the feed, message by message
\* a field the message does not carry
Absent == -1
FeedPrices == {19990, 20000, 20010}

\* The price-level deltas of one side of a message: none, or one delta that
\* sets or removes a level
SideDeltas ==
    {<<>>} \cup { <<Level(p, q)>> : p \in FeedPrices, q \in {0, 3} }
           \cup {<<Level(20000, 4)>>}
\* the depth messages: a delta for one side, or a level for each side
BookMsgs ==
    { [b |-> d, a |-> <<>>] : d \in SideDeltas } \cup { [b |-> <<>>, a |-> d] : d \in SideDeltas }
    \cup {[b |-> <<Level(19990, 3)>>, a |-> <<Level(20010, 3)>>]}
\* the best level of one side as a bookTicker message carries it
TickerLevels == {Level(Absent, Absent), Level(20000, 3), Level(20010, 0)}
\* E of a message: none, or an exchange time older than the quote age limit
EventTimes == {Undefined, now - QuoteAgeStep}

\* OrderBookManager.handleBookTicker
handleBookTicker(bid, ask, E) ==
    orderBook' = [orderBook EXCEPT
                    !.bids = IF bid.price # Absent /\ bid.quantity # Absent
                             THEN updateLevel(@, TRUE, bid.price, bid.quantity) ELSE @,
                    !.asks = IF ask.price # Absent /\ ask.quantity # Absent
                             THEN updateLevel(@, FALSE, ask.price, ask.quantity) ELSE @,
                    !.timestamp = IF E # 0 THEN E ELSE now]

restOfBook == <<clockVars, ksVars, lastPrice, tracker, account, orders, openOrders,
                isPaperTrading, isShutdown, isRunning, cycles, logs, lastVerdict,
                parameterVars, wsClient, metricsLog>>

\* a depth message with event time E
DepthUpdateAt(u, msg, E) ==
    /\ handleDepthUpdate(u, msg, E)
    /\ omCall' = OmCall("handleDepthUpdate",
                        IF u <= orderBook.lastUpdateId THEN "discarded" ELSE "applied")
    /\ UNCHANGED <<restOfBook, retryConfig, pendingRetries, retryTimers, submits, fillCheck>>

\* a bookTicker message with event time E
BookTicker(bid, ask, E) ==
    /\ handleBookTicker(bid, ask, E)
    /\ omCall' = OmCall("handleBookTicker", "applied")
    /\ UNCHANGED <<restOfBook, retryConfig, pendingRetries, retryTimers, submits, fillCheck,
                   isInitialized, emitted>>

\* ------------------------------------- the risk metrics, called directly
\* The closes the callers report: a loss, a break-even and a win, each with
\* an equity below or above the starting equity; the clock steps that move an
\* order out of the last minute and out of the last hour.
MetricsPnls == {-100 * MoneyPerUSD, 0, 100 * MoneyPerUSD}
MetricsEquities == {startingEquity - 200 * MoneyPerUSD, startingEquity + 100 * MoneyPerUSD,
                    startingEquity + 300 * MoneyPerUSD}
RateDeltas == {30000, 60000, 3600000}

restOfMetrics == <<ticks, ksVars, bookVars, lastPrice, account, orders, openOrders,
                   isPaperTrading, isShutdown, isRunning, cycles, logs, lastVerdict,
                   parameterVars, wsClient, executionVars, emitted>>

\* RiskMetricsTracker.recordTradeClose(pnl, currentEquity)
RecordTradeCloseAt(pnl, currentEquity) ==
    /\ Len(metricsLog.closes) < MaxTrades
    /\ tracker' = recordTradeClose(tracker, pnl, currentEquity)
    /\ metricsLog' = LogClose(metricsLog, pnl, currentEquity)
    /\ UNCHANGED <<now, restOfMetrics>>

\* RiskMetricsTracker.recordOrderPlaced
RecordOrderPlaced ==
    /\ Len(metricsLog.placed) < MaxPlaced
    /\ tracker' = recordOrderPlaced(tracker, now)
    /\ metricsLog' = LogPlaced(metricsLog, now)
    /\ UNCHANGED <<now, restOfMetrics>>

\* RiskMetricsTracker.getMetrics
GetMetrics ==
    /\ tracker' = updateOrderRates(tracker, now)
    /\ metricsLog' = LogRead(metricsLog, now, updateOrderRates(tracker, now).metrics)
    /\ UNCHANGED <<now, restOfMetrics>>

\* -------------------------------------------------------- WebSocket Client
\* Two of the streams connectAll opens. Per stream the client holds at most
\* one socket here: connect is called from outside once per stream (by
\* connectAll), and afterwards only by attemptReconnect.
Streams == {"depth", "aggTrade"}

\* sockets: the WebSocket created for the stream, if it has not closed yet;
\* sleeping: the delay of the attemptReconnect call that is in its sleep, or
\* NotSleeping; connectCalled: the streams connectAll has asked for.
\* tried, slept and afterShutdown record the sockets attemptReconnect has
\* created: how many since the stream was last open, the delay before the
\* last one, and how many were created once disconnectAll had been called.
NewWebSocketClient ==
    [connections |-> {},
     reconnectAttempts |-> [s \in Streams |-> 0],
     isShuttingDown |-> FALSE,
     sockets |-> [s \in Streams |-> "none"],
     sleeping |-> [s \in Streams |-> NotSleeping],
     connectCalled |-> {},
     maxReconnectReached |-> [s \in Streams |-> 0],
     tried |-> [s \in Streams |-> 0],
     slept |-> [s \in Streams |-> NotSleeping],
     afterShutdown |-> 0]

RECURSIVE Pow(_, _)
\* Math.pow on naturals
Pow(b, e) == IF e = 0 THEN 1 ELSE b * Pow(b, e - 1)

\* attemptReconnect: the delay before attempt number attempts
reconnectDelayFor(attempts) == reconnectDelay * Pow(2, attempts - 1)

\* attemptReconnect up to its sleep
attemptReconnect(ws, s) ==
    LET attempts == ws.reconnectAttempts[s] + 1
    IN IF attempts > maxReconnectAttempts
       THEN [ws EXCEPT !.maxReconnectReached[s] = @ + 1]
       ELSE [ws EXCEPT !.reconnectAttempts[s] = attempts,
                       !.sleeping[s] = reconnectDelayFor(attempts)]

\* connect: resolves at once for a connected stream, else creates a socket
connect(ws, s) ==
    IF s \in ws.connections THEN ws ELSE [ws EXCEPT !.sockets[s] = "connecting"]

restOfFeed == <<now, ticks, ksVars, orderBook, isInitialized, lastPrice, tracker, account,
                orders, openOrders, isPaperTrading, isShutdown, isRunning, cycles, logs,
                lastVerdict, parameterVars, executionVars, emitted, metricsLog>>

\* connectAll's connect(stream)
Connect(s) ==
    /\ s \notin wsClient.connectCalled
    /\ wsClient' = [connect(wsClient, s) EXCEPT !.connectCalled = @ \cup {s}]
    /\ UNCHANGED restOfFeed

\* the socket's 'open' handler
SocketOpen(s) ==
    /\ wsClient.sockets[s] = "connecting"
    /\ wsClient' = [wsClient EXCEPT !.sockets[s] = "open",
                                    !.reconnectAttempts[s] = 0,
                                    !.connections = @ \cup {s},
                                    !.tried[s] = 0]
    /\ UNCHANGED restOfFeed

\* the socket's 'close' handler: the connection failed, timed out and was
\* terminated, or was closed by the exchange
SocketClose(s) ==
    /\ wsClient.sockets[s] \in {"connecting", "open"}
    /\ LET closed == [wsClient EXCEPT !.sockets[s] = "none", !.connections = @ \ {s}]
       IN wsClient' = IF closed.isShuttingDown THEN closed ELSE attemptReconnect(closed, s)
    /\ UNCHANGED restOfFeed

\* attemptReconnect after its sleep: connect
ReconnectWake(s) ==
    /\ wsClient.sleeping[s] # NotSleeping
    /\ LET woken == [wsClient EXCEPT !.sleeping[s] = NotSleeping]
           after == connect(woken, s)
       IN wsClient' =
             IF after.sockets[s] = "connecting"
             THEN [after EXCEPT !.tried[s] = @ + 1,
                                !.slept[s] = wsClient.sleeping[s],
                                !.afterShutdown =
                                    IF wsClient.isShuttingDown THEN @ + 1 ELSE @]
             ELSE after
    /\ UNCHANGED restOfFeed

\* disconnectAll: the connected sockets are closed; their 'close' handlers
\* find isShuttingDown set
DisconnectAll ==
    /\ wsClient' = [wsClient EXCEPT
                       !.isShuttingDown = TRUE,
                       !.sockets = [s \in Streams |->
                                       IF s \in wsClient.connections THEN "none" ELSE @[s]],
                       !.connections = {}]
    /\ UNCHANGED restOfFeed

\* ------------------------------------------------------------ specification
NoVerdict == [op |-> "none", vetoed |-> FALSE, decisionId |-> 0, checks |-> <<>>,
              failedChecks |-> <<>>, ksActive |-> FALSE]

\* The state once TradingEngine.start has initialised the components and
\* opened the feed; the decision loop starts when the book is ready.
InitExceptRulebook ==
    /\ now = StartTime
    /\ ticks = 0
    /\ killSwitch = InactiveState
    /\ cooldownMs = DefaultCooldownMs
    /\ activatedEvents = 0
    /\ deactivatedEvents = 0
    /\ ksCall = NoCall
    /\ orderBook = createEmptyOrderBook(StartTime)
    /\ isInitialized = FALSE
    /\ lastPrice = 0
    /\ tracker = TrackerInitialize(NewTracker, startingEquity)
    /\ account = [position |-> createEmptyPosition, balance |-> BalanceInitialize(startingEquity)]
    /\ orders = <<>>
    /\ openOrders = {}
    /\ isPaperTrading = TRUE
    /\ isShutdown = FALSE
    /\ isRunning = FALSE
    /\ cycles = [c \in 1..MaxCycles |-> IdleCycle]
    /\ logs = <<>>
    /\ lastVerdict = NoVerdict
    /\ versions = <<ParameterSet(1, DEFAULT_PARAMETERS, "ACTIVE")>>
    /\ pendingProposals = EmptyMap
    /\ retryConfig = DEFAULT_CONFIG
    /\ pendingRetries = EmptyMap
    /\ retryTimers = {}
    /\ submits = <<>>
    /\ fillCheck = IdleFillCheck
    /\ emitted = [orderCancelled |-> NoEvents, maxRetriesReached |-> NoEvents,
                  retryFailed |-> NoEvents, replaceFailed |-> NoEvents, update |-> 0]
    /\ omCall = OmCall("none", "none")
    /\ metricsLog = NoMetricsLog
    /\ wsClient = NewWebSocketClient

\* new RulebookEngine(): the default rulebook
Init ==
    /\ InitExceptRulebook
    /\ rulebook = DEFAULT_RULEBOOK

\* The running engine: clock, market feed, decision cycles, and the operator's
\* kill switch
Next ==
    \/ QuoteAge
    \/ \E u \in 1..MaxSeq, msg \in DepthMsgs : DepthUpdate(u, msg)
    \/ \E p \in TradePrices : Trade(p)
    \/ \E paperTrading \in BOOLEAN : Start(paperTrading)
    \/ \E c \in 1..MaxCycles, avoid \in BOOLEAN, atrPositive \in BOOLEAN :
          CycleStart(c, avoid, atrPositive)
    \/ \E c \in 1..MaxCycles, out \in AttemptOutcomes, sz \in SizingInputs :
          AIAttempt(c, out, sz)
    \/ \E c \in 1..MaxCycles : SimSubmitted(c)
    \/ \E c \in 1..MaxCycles : SimFilled(c)
    \/ Activate("MANUAL", "operator")

Spec == Init /\ [][Next]_vars

\* The Kill Switch with every caller of its interface
NextKS ==
    \/ \E d \in TickDeltas : Tick(d)
    \/ \E tr \in Triggers : Activate(tr, "operator")
    \/ \E tok \in Tokens : Deactivate(tok)
    \/ \E v \in {3, 6} : CheckDrawdownTrigger(v, 5)
    \/ \E v \in {1, 2} : CheckDailyLossTrigger(v, 2)
    \/ TriggerOnError("Critical error")
    \/ \E ms \in CooldownInputs : SetCooldown(ms)
    \/ EmergencyShutdownExecute("operator")

SpecKS == Init /\ [][NextKS]_vars

\* The Veto Gate called on every decision shape, over the feed, the clock,
\* the trade record and the Kill Switch
GateDecisions == { BoundResponse(1, r) : r \in { x \in JsonReplies : ResponseSchemaOk(x) } }
                 \cup {createSafeHoldDecision(1)}

NextGate ==
    \/ QuoteAge
    \/ \E u \in 1..MaxSeq, msg \in DepthMsgs : DepthUpdate(u, msg)
    \/ \E p \in TradePrices : Trade(p)
    \/ \E pnl \in ClosePnls : RecordTradeClose(pnl)
    \/ Activate("MANUAL", "operator")
    \/ \E decision \in GateDecisions : Evaluate(decision)
    \/ ForceApprove(1)

SpecGate == Init /\ [][NextGate]_vars

\* The Order Manager and the Order Retry Manager with every caller of their
\* interface, over a feed that fills the book
NextOM ==
    \/ \E paperTrading \in BOOLEAN : SetMode(paperTrading)
    \/ \E limit \in RetryLimits : Configure(limit)
    \/ DepthUpdate(MaxSeq, GoodDepth)
    \/ \E request \in OrderRequests : SubmitWithRetry(request)
    \/ \E id \in OrderIds : SubmitLatency(id)
    \/ \E id \in OrderIds : FillLatency(id)
    \/ \E id \in OrderIds : CancelOrder(id)
    \/ CancelAllOrders
    \/ CheckPendingFills
    \/ CheckFillLatency
    \/ \E id \in OrderIds, newPrice \in NewPrices : CancelAndReplace(id, newPrice)
    \/ \E timer \in retryTimers : RetryTimer(timer)

SpecOM == Init /\ [][NextOM]_vars

\* The Order Book Replica under depth and bookTicker messages and the clock
NextBook ==
    \/ \E d \in {StaleMaxAgeMs, QuoteAgeStep} : Tick(d)
    \/ \E u \in 1..MaxSeq, msg \in BookMsgs, E \in EventTimes : DepthUpdateAt(u, msg, E)
    \/ \E bid \in TickerLevels, ask \in TickerLevels, E \in EventTimes : BookTicker(bid, ask, E)

SpecBook == Init /\ [][NextBook]_vars

\* The Order Book Replica under depth messages and bookTicker messages that
\* carry both best levels with a positive quantity
TickerBids == {Level(19990, 5), Level(20000, 5)}
TickerAsks == {Level(20000, 5), Level(20010, 5)}

NextTicker ==
    \/ \E u \in 1..MaxSeq, msg \in BookMsgs, E \in EventTimes : DepthUpdateAt(u, msg, E)
    \/ \E bid \in TickerBids, ask \in TickerAsks, E \in EventTimes : BookTicker(bid, ask, E)

SpecTicker == Init /\ [][NextTicker]_vars

\* The Parameter Manager's approval flow beside the Veto Gate's reads of the
\* rulebook
NextParams ==
    \/ \E changes \in ProposedChanges : ProposeUpdate(changes)
    \/ \E proposalId \in ProposalIds : ApproveProposal(proposalId)
    \/ \E proposalId \in ProposalIds : RejectProposal(proposalId)
    \/ \E targetVersion \in 1..MaxVersions : Rollback(targetVersion)
    \/ \E decision \in GateDecisions : Evaluate(decision)

SpecParams == Init /\ [][NextParams]_vars

\* The Risk Metrics tracker under its callers: closes, order placements and
\* reads, while the clock advances
NextMetrics ==
    \/ \E d \in RateDeltas : Tick(d)
    \/ \E pnl \in MetricsPnls, currentEquity \in MetricsEquities :
          RecordTradeCloseAt(pnl, currentEquity)
    \/ RecordOrderPlaced
    \/ GetMetrics

SpecMetrics == Init /\ [][NextMetrics]_vars

\* the decisions whose slippage the gate estimates: a size the best level
\* holds, and one that needs a second level
SlippageDecisions ==
    { [requestId |-> 1, action |-> action, size |-> size, orderType |-> "MARKET",
       limitPrice |-> Undefined, holdTimeMs |-> 10000, confidence |-> 8] :
      action \in {"BUY", "SELL"}, size \in {2, 5} }

\* The Veto Gate evaluating against the book the feed maintains
NextSlippage ==
    \/ \E u \in 1..MaxSeq, msg \in BookMsgs : DepthUpdateAt(u, msg, Undefined)
    \/ \E decision \in SlippageDecisions : Evaluate(decision)

SpecSlippage == Init /\ [][NextSlippage]_vars

\* the requests whose simulated fill is observed: market orders, and limit
\* and post-only orders on either side of the book of GoodDepth
FillRequests ==
    { [side |-> side, type |-> "MARKET", quantity |-> 1, price |-> Undefined,
       decisionId |-> Undefined] : side \in {"BUY", "SELL"} }
    \cup { [side |-> side, type |-> type, quantity |-> 1, price |-> price,
            decisionId |-> Undefined] :
           side \in {"BUY", "SELL"}, type \in {"LIMIT", "POST_ONLY"}, price \in {19995, 20015} }

\* Paper-mode submissions while the feed fills and drains the book
NextFill ==
    \/ \E u \in 1..MaxSeq, msg \in {GoodDepth, DrainBids} : DepthUpdate(u, msg)
    \/ \E request \in FillRequests : SubmitWithRetry(request)
    \/ \E id \in OrderIds : SubmitLatency(id)
    \/ \E id \in OrderIds : FillLatency(id)

SpecFill == Init /\ [][NextFill]_vars

\* Emergency shutdowns among submissions in paper mode, with the operator
\* deactivating the Kill Switch once its cooldown has passed
NextShutdown ==
    \/ \E d \in TickDeltas : Tick(d)
    \/ \E tok \in Tokens : Deactivate(tok)
    \/ DepthUpdate(MaxSeq, GoodDepth)
    \/ \E request \in OrderRequests : SubmitWithRetry(request)
    \/ \E id \in OrderIds : SubmitLatency(id)
    \/ \E id \in OrderIds : FillLatency(id)
    \/ \E timer \in retryTimers : RetryTimer(timer)
    \/ EmergencyShutdownExecute("operator")

SpecShutdown == Init /\ [][NextShutdown]_vars

\* The engine trading through a fall of the market: an entry on the first
\* book, then the whole book and the tape move down, then an exit
CrashDepth == [b |-> <<Level(20000, 0), Level(19990, 0), Level(19980, 0), Level(18000, 120)>>,
               a |-> <<Level(20010, 0), Level(20020, 0), Level(20030, 0), Level(18010, 120)>>]
CrashPrices == {20000, 18005}
CrashReplies ==
    { Reply("json", "BUY", 1, "MARKET", Undefined, 10000, 8),
      Reply("json", "EXIT", 0, "MARKET", Undefined, 10000, 8) }

NextCrash ==
    \/ \E u \in 1..MaxSeq, msg \in {GoodDepth, CrashDepth} : DepthUpdate(u, msg)
    \/ \E p \in CrashPrices : Trade(p)
    \/ Start(TRUE)
    \/ \E c \in 1..MaxCycles : CycleStart(c, FALSE, TRUE)
    \/ \E c \in 1..MaxCycles, out \in CrashReplies : AIAttempt(c, out, 1)
    \/ \E c \in 1..MaxCycles : SimSubmitted(c)
    \/ \E c \in 1..MaxCycles : SimFilled(c)

SpecCrash == Init /\ [][NextCrash]_vars

\* The engine on a rulebook built as new RulebookEngine(customRulebook):
\* the custom fields are merged over the defaults and the result has to pass
\* RulebookConfigSchema
CustomHoldTimes == {5000, 60000, 300000, 400000}
CustomSizes == {1, 5, 20 * QtyPerBTC}
CustomRulebooks ==
    { r \in { [DEFAULT_RULEBOOK EXCEPT !.minHoldTimeMs = lo, !.maxHoldTimeMs = hi,
                                       !.maxPositionSizeBTC = size] :
                  lo \in CustomHoldTimes, hi \in CustomHoldTimes, size \in CustomSizes } :
        RulebookConfigSchemaOk(r) }
BoundReplies ==
    { Reply("json", "BUY", 6, "MARKET", Undefined, 5000, 8),
      Reply("json", "BUY", 3, "MARKET", Undefined, 300000, 8),
      Reply("json", "HOLD", 0, "LIMIT", Undefined, 10000, 8),
      Reply("json", "BUY", 1, "MARKET", Undefined, 1000, 8),
      Reply("timeout", "HOLD", 0, "LIMIT", Undefined, 0, 0) }

InitBound ==
    /\ InitExceptRulebook
    /\ rulebook \in CustomRulebooks

NextBound ==
    \/ DepthUpdate(1, GoodDepth)
    \/ Trade(20000)
    \/ Start(TRUE)
    \/ \E c \in 1..MaxCycles : CycleStart(c, FALSE, TRUE)
    \/ \E c \in 1..MaxCycles, out \in BoundReplies : AIAttempt(c, out, 1)
    \/ \E c \in 1..MaxCycles : SimSubmitted(c)
    \/ \E c \in 1..MaxCycles : SimFilled(c)

SpecBound == InitBound /\ [][NextBound]_vars

\* The Veto Gate after one trade close of the day, a loss or a profit of one
\* to three percent of the start-of-day equity
DayPnls == {k * 100 * MoneyPerUSD : k \in {-3, -2, -1, 1, 2, 3}}

NextDay ==
    \/ DepthUpdate(1, GoodDepth)
    \/ Trade(20000)
    \/ \E pnl \in DayPnls : RecordTradeClose(pnl)
    \/ \E decision \in GateDecisions : Evaluate(decision)

SpecDay == Init /\ [][NextDay]_vars

\* The Veto Gate on entry decisions that name a limit order type, with and
\* without a limit price, near the last price and far from it
SanityDecisions ==
    { [requestId |-> 1, action |-> action, size |-> size, orderType |-> orderType,
       limitPrice |-> limitPrice, holdTimeMs |-> 10000, confidence |-> confidence] :
        action \in {"BUY", "SELL"}, size \in {0, 1}, orderType \in {"LIMIT", "POST_ONLY"},
        limitPrice \in {Undefined, 20000, 19000}, confidence \in {2, 8} }

NextSanity ==
    \/ DepthUpdate(1, GoodDepth)
    \/ \E price \in {20000, 19100} : Trade(price)
    \/ \E decision \in SanityDecisions : Evaluate(decision)

SpecSanity == Init /\ [][NextSanity]_vars

\* The market-data streams connecting, failing, reconnecting and being shut down
NextFeed ==
    \/ \E s \in Streams : Connect(s)
    \/ \E s \in Streams : SocketOpen(s)
    \/ \E s \in Streams : SocketClose(s)
    \/ \E s \in Streams : ReconnectWake(s)
    \/ DisconnectAll

SpecFeed == Init /\ [][NextFeed]_vars


\* ------------------------------------------------------------------ claims
\* the deactivate call of this step is refused by the token or by the cooldown
RefusedDeactivate(tok) ==
    /\ Deactivate(tok)
    /\ killSwitch.active
    /\ (tok # ConfirmToken \/ now < killSwitch.canReactivateAt)

\* C5: a deactivate call on an ACTIVE kill switch with a wrong token, or before
\* the cooldown expiry, returns false, leaves active flag, trigger, reason,
\* activatedAt and cooldown expiry as they were, and emits no 'deactivated' event.
C5_RefusedDeactivateChangesNothing ==
    [][\A tok \in Tokens :
          RefusedDeactivate(tok) =>
              /\ ksCall'.op = "deactivate" /\ ~ksCall'.result
              /\ killSwitch' = killSwitch
              /\ deactivatedEvents' = deactivatedEvents
              /\ cooldownMs' = cooldownMs]_vars

\* a deactivate with the right token was refused before the cooldown expiry
C5_Witness ==
    /\ ksCall = [op |-> "deactivate", arg |-> ConfirmToken, wasActive |-> TRUE,
                 result |-> FALSE]
    /\ killSwitch.active
    /\ now < killSwitch.canReactivateAt
    /\ now > killSwitch.activatedAt

\* C6: the kill switch goes from ACTIVE to INACTIVE only in a deactivate call with
\* the correct token at or after the cooldown expiry; such a call returns true
\* and leaves it INACTIVE; no other operation takes it out of ACTIVE.
C6_OnlyConfirmedDeactivateAfterCooldown ==
    [][/\ (killSwitch.active /\ ~killSwitch'.active) =>
              /\ Deactivate(ConfirmToken)
              /\ now >= killSwitch.canReactivateAt
              /\ ksCall'.result
       /\ (Deactivate(ConfirmToken) /\ killSwitch.active
           /\ now >= killSwitch.canReactivateAt) =>
              /\ ksCall'.result
              /\ killSwitch' = InactiveState
              /\ deactivatedEvents' = deactivatedEvents + 1]_vars

\* trading was resumed by a confirmed deactivate after the cooldown
C6_Witness ==
    /\ ksCall = [op |-> "deactivate", arg |-> ConfirmToken, wasActive |-> TRUE,
                 result |-> TRUE]
    /\ ~killSwitch.active
    /\ deactivatedEvents = 1
    /\ activatedEvents = 1

\* C7: while the kill switch is ACTIVE, no activation (direct, by an automatic
\* trigger, on an error or by the emergency shutdown) changes trigger, reason,
\* activatedAt or the cooldown expiry, and none emits a second 'activated' event.
C7_ReactivationIsNoOp ==
    [][(killSwitch.active /\ killSwitch'.active) =>
          /\ killSwitch' = killSwitch
          /\ activatedEvents' = activatedEvents]_vars

\* activate was called with another trigger, at a later time, on an ACTIVE switch
C7_Witness ==
    /\ ksCall.op = "activate" /\ ksCall.wasActive
    /\ killSwitch.active
    /\ ksCall.arg # killSwitch.activatedBy
    /\ now > killSwitch.activatedAt
    /\ activatedEvents = 1

Range(seq) == {seq[i] : i \in DOMAIN seq}

\* the names of the entries that did not pass, in the order of the entries
NamesOfFailed(checks) ==
    LET idx == {i \in DOMAIN checks : ~checks[i].passed}
        F[k \in 0..Len(checks)] ==
            IF k = 0 THEN <<>>
            ELSE IF k \in idx THEN F[k - 1] \o <<checks[k].checkName>> ELSE F[k - 1]
    IN F[Len(checks)]

\* C1: every verdict the Veto Gate produces (by evaluate or by forceApprove) while
\* the Kill Switch is ACTIVE has vetoed = true and KILL_SWITCH among failedChecks.
C1_ActiveKillSwitchVetoesEveryVerdict ==
    (lastVerdict.op # "none" /\ lastVerdict.ksActive) =>
        (lastVerdict.vetoed /\ "KILL_SWITCH" \in Range(lastVerdict.failedChecks))

\* C1, for evaluate alone: its verdict under an ACTIVE Kill Switch is a veto
\* that names KILL_SWITCH.
C1_EvaluateVetoesWhileActive ==
    (lastVerdict.op = "evaluate" /\ lastVerdict.ksActive) =>
        (lastVerdict.vetoed /\ "KILL_SWITCH" \in Range(lastVerdict.failedChecks))

\* forceApprove was called while the Kill Switch was ACTIVE
C1_Witness ==
    /\ lastVerdict.op = "forceApprove"
    /\ lastVerdict.ksActive
    /\ killSwitch.active

\* C2: in every verdict of evaluate, vetoed holds exactly when failedChecks is
\* non-empty, and failedChecks lists the names of the failed entries of checks,
\* and only those, in the order of checks.
C2_VetoedIsDerivedFromChecks ==
    lastVerdict.op = "evaluate" =>
        /\ lastVerdict.vetoed <=> (lastVerdict.failedChecks # <<>>)
        /\ lastVerdict.failedChecks = NamesOfFailed(lastVerdict.checks)

\* a verdict with a forbidden condition, a failed rulebook check and a failed
\* sanity check beside checks that passed
C2_Witness ==
    /\ lastVerdict.op = "evaluate"
    /\ lastVerdict.vetoed
    /\ "FORBIDDEN_CONDITIONS" \in Range(lastVerdict.failedChecks)
    /\ "DAILY_LOSS" \in Range(lastVerdict.failedChecks)
    /\ "CONFIDENCE_THRESHOLD" \in Range(lastVerdict.failedChecks)
    /\ \E i \in DOMAIN lastVerdict.checks : lastVerdict.checks[i].passed

CycleIds == 1..MaxCycles
Last(seq) == seq[Len(seq)]

\* the risk metrics apart from the order-rate window that every getMetrics
\* read recomputes from the clock
RecordedMetrics(tr) ==
    [peakEquity |-> tr.peakEquity, startOfDayEquity |-> tr.startOfDayEquity,
     placed |-> Len(tr.orderTimestamps),
     metrics |-> [tr.metrics EXCEPT !.ordersLastMinute = 0, !.ordersLastHour = 0]]

C4_ActiveKillSwitchSkipsCycle ==
    [][\A c \in CycleIds :
          (cycles[c].pc = "idle" /\ cycles'[c].pc # "idle" /\ killSwitch.active) =>
              /\ cycles'[c].pc = "done"
              /\ cycles'[c].outcome = "skippedKillSwitch"
              /\ ~cycles'[c].requested
              /\ ~cycles'[c].evaluated
              /\ logs' = logs
              /\ orders' = orders
              /\ openOrders' = openOrders
              /\ account' = account
              /\ tracker' = tracker]_vars

\* the cycle after the one that made the operator stop trading was skipped
C4_Witness ==
    /\ cycles[1].outcome = "completed"
    /\ killSwitch.active /\ killSwitch.activatedBy = "MANUAL"
    /\ cycles[2].outcome = "skippedKillSwitch"
    /\ Len(logs) = 1

\* C8: when a cycle throws, the kill switch is ACTIVE afterwards, activated by
\* AUTO_ERROR (with one 'activated' event) if it was INACTIVE, left as it was if
\* it was ACTIVE, and the decision loop keeps running.
C8_ThrowingCycleActivatesKillSwitch ==
    [][\A c \in CycleIds :
          (cycles[c].outcome # "threw" /\ cycles'[c].outcome = "threw") =>
              /\ killSwitch'.active
              /\ ~killSwitch.active =>
                     /\ killSwitch'.activatedBy = "AUTO_ERROR"
                     /\ activatedEvents' = activatedEvents + 1
              /\ killSwitch.active => killSwitch' = killSwitch
              /\ isRunning']_vars

\* a cycle threw while updating the position, the kill switch went ACTIVE by
\* AUTO_ERROR, and the loop ran the next cycle
C8_Witness ==
    /\ cycles[1].outcome = "threw" /\ cycles[1].evaluated
    /\ killSwitch.active /\ killSwitch.activatedBy = "AUTO_ERROR"
    /\ isRunning
    /\ cycles[2].pc = "done"

RecordsOf(c) == Cardinality({i \in DOMAIN logs : logs[i].requestId = c})
Skipped == {"skippedKillSwitch", "skippedNotReady", "skippedNews"}

\* C9 as stated: every finished cycle, skipped and failed ones included, has
\* appended exactly one audit-log record.
C9_EveryCycleLogsOneRecord ==
    \A c \in CycleIds : cycles[c].pc = "done" => RecordsOf(c) = 1

\* C9, amended: a cycle has appended exactly one audit-log record once it has its
\* Veto Gate verdict, whether executed, vetoed or held, and none before; a cycle
\* that is skipped, or throws before the verdict, appends none; every order has
\* the record of its decision, with the action-taken flag set.
C9_EveryVerdictLogsOneRecord ==
    /\ \A c \in CycleIds : RecordsOf(c) = (IF cycles[c].evaluated THEN 1 ELSE 0)
    /\ \A c \in CycleIds :
          (cycles[c].outcome \in Skipped \/ (cycles[c].outcome = "threw" /\ ~cycles[c].evaluated))
              => RecordsOf(c) = 0
    /\ \A k \in DOMAIN orders :
          \E i \in DOMAIN logs :
              logs[i].requestId = orders[k].decisionId /\ logs[i].actionTaken

\* one cycle has its record and its order, the other was skipped and has none
C9_Witness ==
    \E c, d \in CycleIds :
        /\ cycles[c].evaluated /\ RecordsOf(c) = 1
        /\ \E k \in DOMAIN orders : orders[k].decisionId = c
        /\ cycles[d].outcome \in Skipped /\ RecordsOf(d) = 0

\* C10: no cycle throws in its decision request: a cycle that called
\* requestDecision gets a decision (the service's or the safe HOLD) and reaches
\* the Veto Gate, so no failure of the decision service activates the Kill Switch.
C10_RequestDecisionNeverThrows ==
    \A c \in CycleIds :
        ~(cycles[c].outcome = "threw" /\ cycles[c].requested /\ ~cycles[c].evaluated)

\* requestDecision threw on the request it built, and the Kill Switch went ACTIVE
C10_Witness ==
    \E c \in CycleIds :
        /\ cycles[c].outcome = "threw" /\ cycles[c].requested /\ ~cycles[c].evaluated
        /\ killSwitch.active /\ killSwitch.activatedBy = "AUTO_ERROR"
        /\ RecordsOf(c) = 0

\* the statuses an order does not leave, and how far along a status is
TerminalStatuses == {"FILLED", "CANCELLED"}
StatusRank(status) == IF status = "PENDING" THEN 0 ELSE IF status = "SUBMITTED" THEN 1 ELSE 2

\* C11: under every interleaving of submissions, cancellations and fill
\* checks, an order's status only moves forward, and an order that has
\* reached FILLED or CANCELLED never changes again.
C11_StatusOnlyMovesForward ==
    [][\A id \in DOMAIN orders :
          /\ StatusRank(orders'[id].status) >= StatusRank(orders[id].status)
          /\ orders[id].status \in TerminalStatuses => orders'[id] = orders[id]]_vars

\* an order whose cancellation was announced is FILLED
C11_Witness ==
    \E id \in DOMAIN orders :
        /\ emitted.orderCancelled[id] > 0
        /\ orders[id].status = "FILLED"
        /\ id \in DOMAIN submits

\* C12: cancelOrder for an unknown id or for an order that is not PENDING,
\* SUBMITTED or PARTIAL returns false, changes neither the orders nor the
\* open-order set nor the retry tracking, and emits no event.
C12_RefusedCancelChangesNothing ==
    [][\A id \in OrderIds :
          (/\ CancelOrder(id)
           /\ \/ id \notin DOMAIN orders
              \/ orders[id].status \notin {"PENDING", "SUBMITTED", "PARTIAL"})
          => /\ omCall'.result = "false"
             /\ orders' = orders
             /\ openOrders' = openOrders
             /\ emitted' = emitted
             /\ pendingRetries' = pendingRetries
             /\ retryTimers' = retryTimers]_vars

\* cancelOrder has returned false, and every order there is has ended
C12_Witness ==
    /\ omCall = OmCall("cancelOrder", "false")
    /\ orders # <<>>
    /\ \A id \in DOMAIN orders : orders[id].status \in TerminalStatuses

\* the submitOrder calls made for the logical order first submitted as id
SubmissionsOf(logical) == Cardinality({id \in DOMAIN submits : submits[id].logical = logical})

\* C18: across any sequence of operations, cancelAndReplace included, the
\* submissions made for one logical order never exceed maxRetries.
C18_SubmissionsNeverExceedMaxRetries ==
    \A logical \in OrderIds : SubmissionsOf(logical) <= retryConfig.maxRetries

\* cancelAndReplace has submitted past the limit
C18_Witness ==
    \E id \in DOMAIN submits :
        /\ submits[id].caller = "cancelAndReplace"
        /\ submits[id].pc = "returned"
        /\ SubmissionsOf(submits[id].logical) > retryConfig.maxRetries

\* no retry manager event names order id
Unreported(id) ==
    /\ emitted.maxRetriesReached[id] = 0
    /\ emitted.retryFailed[id] = 0
    /\ emitted.replaceFailed[id] = 0

\* C19: an order whose submission the venue path refused is retried or
\* reported: it is tracked, or a retry is scheduled for it, or a failed-order
\* event names it.
C19_VenueFailureIsRetriedOrReported ==
    \A id \in DOMAIN submits :
        (submits[id].pc = "threw" /\ submits[id].caller = "submitWithRetry")
        => \/ id \in DOMAIN pendingRetries
           \/ \E timer \in retryTimers : timer.logical = id
           \/ ~Unreported(id)

\* live mode: the order of a submitWithRetry call is left PENDING, untracked,
\* with no retry scheduled and no event
C19_Witness ==
    /\ ~isPaperTrading
    /\ \E id \in DOMAIN submits :
          /\ submits[id].caller = "submitWithRetry"
          /\ orders[id].status = "PENDING"
          /\ id \notin DOMAIN pendingRetries
          /\ retryTimers = {}
          /\ Unreported(id)

\* C20: cancelAndReplace for an untracked id, or for an order cancelOrder
\* refuses, returns null, submits no order and leaves the tracking map as it
\* was.
C20_AbortedReplaceChangesNothing ==
    [][\A id \in OrderIds, newPrice \in NewPrices :
          (/\ CancelAndReplace(id, newPrice)
           /\ \/ id \notin DOMAIN pendingRetries
              \/ id \notin DOMAIN orders
              \/ orders[id].status \notin {"PENDING", "SUBMITTED", "PARTIAL"})
          => /\ omCall'.result = "null"
             /\ orders' = orders
             /\ submits' = submits
             /\ pendingRetries' = pendingRetries
             /\ retryTimers' = retryTimers
             /\ emitted' = emitted]_vars

\* paper mode: cancelAndReplace has returned null while a tracked order had
\* already ended
C20_Witness ==
    /\ isPaperTrading
    /\ omCall = OmCall("cancelAndReplace", "null")
    /\ \E id \in DOMAIN pendingRetries : orders[id].status \in TerminalStatuses

\* a side is strictly ordered by price, so no two of its levels share one
StrictlySorted(levels, isDescending) ==
    \A i \in 1..(Len(levels) - 1) :
        IF isDescending THEN levels[i].price > levels[i + 1].price
                        ELSE levels[i].price < levels[i + 1].price
PricesOf(levels) == {levels[i].price : i \in DOMAIN levels}

\* C13: after any sequence of depth and top-of-book updates the bids are
\* strictly descending and the asks strictly ascending by price, no level
\* with quantity 0 is stored, and an update with quantity 0 applied to the
\* book leaves no level at its price.
C13_SidesSortedUniqueNonZero ==
    /\ StrictlySorted(orderBook.bids, TRUE)
    /\ StrictlySorted(orderBook.asks, FALSE)
    /\ \A i \in DOMAIN orderBook.bids : orderBook.bids[i].quantity # 0
    /\ \A i \in DOMAIN orderBook.asks : orderBook.asks[i].quantity # 0
    /\ \A p \in FeedPrices :
          /\ p \notin PricesOf(updateLevel(orderBook.bids, TRUE, p, 0))
          /\ p \notin PricesOf(updateLevel(orderBook.asks, FALSE, p, 0))

\* both sides hold two levels or more after two applied updates
C13_Witness ==
    /\ Len(orderBook.bids) >= 2
    /\ Len(orderBook.asks) >= 2
    /\ emitted.update >= 2

\* C14: a depth update whose sequence number is not above the last applied
\* one changes neither the book (bids, asks, lastUpdateId, timestamp) nor the
\* initialized flag and emits no 'update' event; lastUpdateId never decreases.
C14_ReplayedUpdateIsDiscarded ==
    [][/\ orderBook'.lastUpdateId >= orderBook.lastUpdateId
       /\ omCall' = OmCall("handleDepthUpdate", "discarded")
          => /\ orderBook' = orderBook
             /\ isInitialized' = isInitialized
             /\ emitted' = emitted]_vars

\* a depth update has been discarded by a book that holds levels
C14_Witness ==
    /\ omCall = OmCall("handleDepthUpdate", "discarded")
    /\ orderBook.lastUpdateId > 0
    /\ orderBook.bids # <<>>

\* the age of the book's last update is within the staleness bound
Fresh == now - orderBook.timestamp <= StaleMaxAgeMs

\* C15 as stated: whenever isReady() returns true the book holds a bid
\* level and an ask level and its last update is no older than 5s.
C15_ReadyMeansBothSidesNow ==
    isReady => (orderBook.bids # <<>> /\ orderBook.asks # <<>> /\ Fresh)

\* C15: whenever isReady() returns true the book's last update is no older
\* than 5s and some applied depth update has left a level on both sides; the
\* flag that records this is set by such an update only and never cleared.
C15_ReadyMeansPopulatedOnceAndFresh ==
    /\ [](isReady => (isInitialized /\ Fresh))
    /\ [][(~isInitialized /\ isInitialized')
          => /\ orderBook'.bids # <<>>
             /\ orderBook'.asks # <<>>
             /\ emitted'.update > emitted.update]_vars
    /\ [][isInitialized => isInitialized']_vars

\* the book is ready while a side of it is empty
C15_Witness ==
    /\ isReady
    /\ orderBook.bids = <<>>
    /\ emitted.update >= 2

\* C16: no operation of the parameter manager (proposals, approvals,
\* rejections, rollbacks) nor of the veto gate (the check methods and
\* validateDecision reading the rulebook) changes the value of any rulebook
\* field: the rulebook stays the one the RulebookEngine was constructed with.
C16_RulebookNeverChanges ==
    /\ [](rulebook = DEFAULT_RULEBOOK)
    /\ [][rulebook' = rulebook]_vars

\* an approved proposal has moved the active hold-time parameter away from the
\* rulebook's, and the gate has evaluated a decision since
C16_Witness ==
    /\ Len(versions) >= 2
    /\ activeVersion.parameters.minHoldTimeMs # rulebook.minHoldTimeMs
    /\ lastVerdict.op = "evaluate"

\* the names of the rulebook battery, in the order validateDecision runs it
RulebookCheckNames ==
    <<"POSITION_SIZE", "EXPOSURE", "DAILY_LOSS", "DRAWDOWN", "SPREAD", "SLIPPAGE",
      "LIQUIDITY", "HOLD_TIME", "ORDER_RATE", "CONSECUTIVE_LOSSES", "LEVERAGE",
      "KILL_SWITCH">>

\* the entries evaluate puts in front of the rulebook battery
VerdictPrefix(verdict) ==
    LET ks == IF verdict.ksActive THEN 1 ELSE 0
    IN IF Len(verdict.checks) > ks /\ verdict.checks[ks + 1].checkName = "FORBIDDEN_CONDITIONS"
       THEN ks + 1 ELSE ks

\* the results of the rulebook battery within a verdict of evaluate
RulebookResults(verdict) ==
    LET k == VerdictPrefix(verdict)
    IN SubSeq(verdict.checks, k + 1, Min(k + Len(RulebookCheckNames), Len(verdict.checks)))

\* C17: every verdict of evaluate carries one result for each of the twelve
\* rulebook checks, in the fixed order position size, exposure, daily loss,
\* drawdown, spread, slippage, liquidity, hold time, order rate, consecutive
\* losses, leverage, kill switch, whichever of them failed.
C17_ValidateDecisionReturnsAllTwelve ==
    lastVerdict.op = "evaluate" =>
        LET results == RulebookResults(lastVerdict)
        IN /\ Len(results) = Len(RulebookCheckNames)
           /\ \A i \in 1..Len(results) : results[i].checkName = RulebookCheckNames[i]

\* a verdict in which two checks of the battery failed and a later one passed
C17_Witness ==
    /\ lastVerdict.op = "evaluate"
    /\ LET results == RulebookResults(lastVerdict)
       IN /\ Len(results) = Len(RulebookCheckNames)
          /\ \E i, j, k \in 1..Len(results) :
                /\ i < j /\ j < k
                /\ ~results[i].passed /\ ~results[j].passed /\ results[k].passed

\* C21: a successful cancelAndReplace makes one submission for the logical
\* order, the replacement: the cancellation of the old order never schedules
\* or makes a retry submission of the original request as well.
C21_ReplaceCausesNoRetry ==
    \A id \in DOMAIN submits :
        submits[id].caller = "cancelAndReplace" /\ submits[id].pc # "threw"
        => /\ \A timer \in retryTimers : timer.orderId # submits[id].oldId
           /\ \A other \in DOMAIN submits :
                 ~(submits[other].caller = "retry" /\ submits[other].oldId = submits[id].oldId)

\* the replacement and a retry of the original request are both SUBMITTED and
\* tracked, for one order replaced once
C21_Witness ==
    \E id, other \in DOMAIN submits :
        /\ submits[id].caller = "cancelAndReplace"
        /\ submits[other].caller = "retry"
        /\ submits[other].oldId = submits[id].oldId
        /\ submits[other].request.price # submits[id].request.price
        /\ orders[id].status = "SUBMITTED" /\ orders[other].status = "SUBMITTED"
        /\ {id, other} \subseteq DOMAIN pendingRetries
        /\ submits[id].oldId \notin DOMAIN pendingRetries

\* the closes recorded so far, and the last one
Closes == metricsLog.closes
LastClose == Closes[Len(Closes)]

\* the number of closes at the end of the log that are all losses (all wins)
LossRun ==
    LET stop == {i \in 1..Len(Closes) : Closes[i].pnl >= 0}
    IN Len(Closes) - (IF stop = {} THEN 0 ELSE CHOOSE i \in stop : \A j \in stop : j <= i)
WinRun ==
    LET stop == {i \in 1..Len(Closes) : Closes[i].pnl <= 0}
    IN Len(Closes) - (IF stop = {} THEN 0 ELSE CHOOSE i \in stop : \A j \in stop : j <= i)

\* the number of losses since the last win, and of wins since the last loss
LossesSinceWin ==
    LET wins == {i \in 1..Len(Closes) : Closes[i].pnl > 0}
        last == IF wins = {} THEN 0 ELSE CHOOSE i \in wins : \A j \in wins : j <= i
    IN Cardinality({i \in (last + 1)..Len(Closes) : Closes[i].pnl < 0})
WinsSinceLoss ==
    LET losses == {i \in 1..Len(Closes) : Closes[i].pnl < 0}
        last == IF losses = {} THEN 0 ELSE CHOOSE i \in losses : \A j \in losses : j <= i
    IN Cardinality({i \in (last + 1)..Len(Closes) : Closes[i].pnl > 0})

StreaksExclusive ==
    tracker.metrics.consecutiveWins = 0 \/ tracker.metrics.consecutiveLosses = 0

\* C22 as stated: at most one streak is non-zero, and right after a losing
\* (winning) close the loss (win) streak is the number of losing (winning)
\* closes in a row that it ends, the other streak being 0.
C22_StreakIsRunOfCloses ==
    /\ StreaksExclusive
    /\ (Closes # <<>> /\ LastClose.pnl < 0)
       => tracker.metrics.consecutiveLosses = LossRun /\ tracker.metrics.consecutiveWins = 0
    /\ (Closes # <<>> /\ LastClose.pnl > 0)
       => tracker.metrics.consecutiveWins = WinRun /\ tracker.metrics.consecutiveLosses = 0

\* C22: at most one streak is non-zero; the loss streak is the number of
\* losing closes since the last winning close and the win streak the number
\* of winning closes since the last losing close, a break-even close
\* changing neither.
C22_StreakCountsSinceOpposite ==
    /\ StreaksExclusive
    /\ tracker.metrics.consecutiveLosses = LossesSinceWin
    /\ tracker.metrics.consecutiveWins = WinsSinceLoss

\* a loss, a break-even close and a loss have been recorded
C22_Witness ==
    /\ Len(Closes) = 3
    /\ Closes[1].pnl < 0 /\ Closes[2].pnl = 0 /\ Closes[3].pnl < 0
    /\ tracker.metrics.consecutiveLosses = 2

\* the largest equity seen so far, the equity of initialize included
LargestEquity ==
    LET seen == {startingEquity} \cup {Closes[i].equity : i \in 1..Len(Closes)}
    IN CHOOSE e \in seen : \A f \in seen : f <= e

\* C23: peakEquity is the largest equity seen so far and never decreases;
\* after a close currentDrawdown is (peakEquity - currentEquity) / peakEquity
\* as a percentage and is not negative; maxDrawdown never decreases and is
\* at least currentDrawdown.
C23_PeakAndDrawdown ==
    /\ [](/\ tracker.peakEquity = LargestEquity
          /\ tracker.metrics.currentDrawdown.n >= 0 /\ tracker.metrics.currentDrawdown.d > 0
          /\ ~NumGT(tracker.metrics.currentDrawdown, tracker.metrics.maxDrawdown)
          /\ Closes # <<>> =>
                LET expected == [n |-> (LargestEquity - LastClose.equity) * 100,
                                 d |-> LargestEquity]
                IN /\ ~NumGT(tracker.metrics.currentDrawdown, expected)
                   /\ ~NumGT(expected, tracker.metrics.currentDrawdown))
    /\ [][/\ tracker'.peakEquity >= tracker.peakEquity
          /\ ~NumGT(tracker.metrics.maxDrawdown, tracker'.metrics.maxDrawdown)]_vars

\* a close above the starting equity raised the peak, and a later close below
\* it left a drawdown smaller than the largest one recorded
C23_Witness ==
    /\ Len(Closes) = 3
    /\ Closes[1].equity < startingEquity
    /\ Closes[2].equity > Closes[3].equity /\ Closes[3].equity > startingEquity
    /\ tracker.peakEquity = Closes[2].equity
    /\ NumGT(tracker.metrics.currentDrawdown, Num(0))
    /\ NumGT(tracker.metrics.maxDrawdown, tracker.metrics.currentDrawdown)

\* the orders placed before the last read whose time is within span of it
PlacedWithin(span) ==
    Cardinality({i \in 1..metricsLog.read.placed :
                    /\ metricsLog.placed[i] > metricsLog.read.at - span
                    /\ metricsLog.placed[i] <= metricsLog.read.at})

\* C24: the ordersLastMinute and ordersLastHour that getMetrics returns at
\* time t are the numbers of orders placed in (t - 60s, t] and (t - 1h, t],
\* and the first is at most the second.
C24_RatesAreCountedAtTheRead ==
    metricsLog.read # NoRead =>
        /\ metricsLog.read.ordersLastMinute = PlacedWithin(60000)
        /\ metricsLog.read.ordersLastHour = PlacedWithin(3600000)
        /\ metricsLog.read.ordersLastMinute <= metricsLog.read.ordersLastHour

\* a read that counts one order of two within the last minute, after an
\* earlier count had both
C24_Witness ==
    /\ Len(metricsLog.placed) = 2
    /\ metricsLog.read.placed = 2
    /\ metricsLog.read.ordersLastMinute = 1
    /\ metricsLog.read.ordersLastHour = 2
    /\ metricsLog.read.at = now
    /\ metricsLog.placed[1] = metricsLog.read.at - 60000

\* the side of the book a decision trades against, and the size it holds
SlippageLevels(decision) ==
    IF decision.action \in {"BUY", "CLOSE_SHORT"} THEN orderBook.asks ELSE orderBook.bids
\* the decisions the last verdict of evaluate can be for, on the book as it is
EvaluatedNow ==
    {decision \in SlippageDecisions :
        lastVerdict = evaluate(decision, orderBook, lastPrice, isActive, tracker.metrics, now)}

\* C25: for every size > 0 and every book the slippage estimate is a finite
\* number: the 1000 bps penalty when the side holds less than the size, also
\* when it holds no level, and otherwise the distance in bps between the
\* average price of the walk and the best price.
C25_SlippageIsFiniteWithPenalty ==
    \A decision \in EvaluatedNow :
        LET levels == SlippageLevels(decision)
            est == estimateSlippage(decision.size, orderBook, decision.action)
        IN /\ est.d # 0
           /\ SumQty(levels) < decision.size => est = Num(InsufficientDepthBps)
           /\ SumQty(levels) >= decision.size =>
                 est = [n |-> Abs(WalkLevels(levels, decision.size).cost
                                  - levels[1].price * decision.size) * 10000,
                        d |-> decision.size * levels[1].price]

\* evaluate has estimated the slippage of a sell against a book whose bids
\* were all removed, and the estimate is Infinity
C25_Witness ==
    \E decision \in EvaluatedNow :
        /\ decision.action = "SELL"
        /\ orderBook.bids = <<>> /\ orderBook.asks # <<>>
        /\ orderBook.lastUpdateId = MaxSeq
        /\ estimateSlippage(decision.size, orderBook, decision.action) = Infinity
        /\ \E i \in 1..Len(lastVerdict.checks) :
              lastVerdict.checks[i].checkName = "SLIPPAGE" /\ ~lastVerdict.checks[i].passed

\* the side of the book an order trades against
OppositeSide(o) == IF o.side = "BUY" THEN orderBook.asks ELSE orderBook.bids
\* the limit price of o has crossed the best price of a non-empty opposite side
Crossed(o) ==
    /\ OppositeSide(o) # <<>>
    /\ \/ o.side = "BUY" /\ o.price >= OppositeSide(o)[1].price
       \/ o.side = "SELL" /\ o.price <= OppositeSide(o)[1].price

\* C26: when simulateOrder resumes after its submit latency, a market order
\* is filled at the best opposite-side price, and a LIMIT or POST_ONLY order
\* is filled only if its price has crossed the existing opposite best price;
\* with the opposite side empty or the price not crossed it stays SUBMITTED
\* and in the open-order set.
C26_PaperFillNeedsCrossedOpposite ==
    [][\A id \in DOMAIN submits :
          (submits[id].pc = "awaitSubmit" /\ submits'[id].pc # "awaitSubmit")
          => LET o == orders'[id]
             IN /\ o.status = "SUBMITTED" /\ id \in openOrders'
                /\ (o.type = "MARKET" /\ OppositeSide(o) # <<>>)
                   => /\ submits'[id].pc = "awaitFill"
                      /\ submits'[id].fillPrice = OppositeSide(o)[1].price
                /\ o.type \in {"LIMIT", "POST_ONLY"}
                   => /\ Crossed(o) => (submits'[id].pc = "awaitFill"
                                        /\ submits'[id].fillPrice = o.price)
                      /\ ~Crossed(o) => submits'[id].pc = "returned"]_vars

\* a limit buy is FILLED at its own price although no ask was ever in the book
C26_Witness ==
    \E id \in DOMAIN orders :
        /\ orders[id].side = "BUY" /\ orders[id].type = "LIMIT"
        /\ orders[id].status = "FILLED"
        /\ orders[id].avgFillPrice = orders[id].price
        /\ id \notin openOrders
        /\ orderBook.asks = <<>> /\ orderBook.lastUpdateId = 0

\* the orders the Order Manager holds in a status that is not terminal
NonTerminalOrders ==
    {id \in DOMAIN orders : orders[id].status \in {"PENDING", "SUBMITTED", "PARTIAL"}}

\* C27: when a call of EmergencyShutdown.execute returns, whatever the state
\* it was made in, the Kill Switch is active and the Order Manager holds no
\* order that is PENDING, SUBMITTED or PARTIAL.
C27_ShutdownLeavesSwitchActiveNoOpenOrder ==
    [][(omCall'.op = "execute" /\ omCall' # omCall)
       => (isActive' /\ {id \in DOMAIN orders' :
                           orders'[id].status \in {"PENDING", "SUBMITTED", "PARTIAL"}} = {})]_vars

\* a second execute has returned with the Kill Switch deactivated since the
\* first, and with an order still PENDING
C27_Witness ==
    /\ omCall = [op |-> "execute", result |-> "already"]
    /\ isShutdown
    /\ ~isActive
    /\ deactivatedEvents = 1
    /\ \E id \in NonTerminalOrders : orders[id].status = "PENDING"

\* the record the decision logger wrote last
LastLog == logs[Len(logs)]

\* what the Veto Gate returns for cycle c's decision on the book and the
\* risk metrics the cycle read when it started
VerdictOnCycleStart(c, decision) ==
    evaluate(decision, cycles[c].bookAtStart, lastPrice, isActive, cycles[c].riskMetrics, now)

\* C28: the verdict a decision cycle gets from the Veto Gate is the verdict on
\* the order book and the risk metrics it captured when it started: book
\* updates and metric changes that arrive while the cycle waits for the
\* decision do not alter what is evaluated.
C28_VetoGateEvaluatesCycleStartSnapshot ==
    [][\A c \in 1..MaxCycles :
          (cycles[c].pc = "awaitAI" /\ ~cycles[c].evaluated /\ cycles'[c].evaluated)
          => logs'[Len(logs')].riskVeto
                = VerdictOnCycleStart(c, logs'[Len(logs')].response)]_vars

\* a cycle has ended with its decision vetoed on a book that lost its bids
\* while the cycle waited; on the book and metrics the cycle started with the
\* same decision passes
C28_Witness ==
    \E c \in 1..MaxCycles :
        /\ cycles[c].pc = "done" /\ cycles[c].evaluated
        /\ Len(logs) > 0
        /\ LastLog.requestId = c
        /\ LastLog.riskVeto.vetoed
        /\ LastLog.riskVeto
              = evaluate(LastLog.response, orderBook, lastPrice, isActive,
                         tracker.metrics, now)
        /\ orderBook.bids # cycles[c].bookAtStart.bids
        /\ ~VerdictOnCycleStart(c, LastLog.response).vetoed

\* the Risk Metrics updates made for fills so far: one recordOrderPlaced per
\* entry, one recordTradeClose per exit
FillUpdates == Len(metricsLog.placed) + Len(metricsLog.closes)

\* the orders that are FILLED
FilledOrders == {id \in DOMAIN orders : orders[id].status = "FILLED"}

\* C29: every order that reaches FILLED brings exactly one Position / Risk
\* Metrics update (openPosition with recordOrderPlaced for an entry,
\* closePosition with recordTradeClose for an exit): the step that fills an
\* order changes the position and records one update, and no update is
\* recorded without a fill.
C29_EveryFillUpdatesExactlyOnce ==
    [][LET filledNow == {id \in DOMAIN orders' : orders'[id].status = "FILLED"} \ FilledOrders
       IN /\ filledNow # {} =>
                /\ Len(metricsLog'.placed) + Len(metricsLog'.closes) = FillUpdates + 1
                /\ account'.position # account.position
          /\ Len(metricsLog'.placed) + Len(metricsLog'.closes) # FillUpdates =>
                Cardinality(filledNow) = 1]_vars

\* the engine's cycle has ended with its order FILLED, no position opened
\* and nothing recorded
C29_Witness ==
    \E c \in 1..MaxCycles, id \in FilledOrders :
        /\ cycles[c].pc = "done"
        /\ orders[id].decisionId = c
        /\ FillUpdates = 0
        /\ account.position = createEmptyPosition

\* the daily loss has reached the rulebook's daily-loss limit
DailyLossAtLimit ==
    /\ tracker.metrics.dailyPnlPercent.n < 0
    /\ ~NumGT(Num(getRulebook.maxDailyLossPercent), AbsNum(tracker.metrics.dailyPnlPercent))

\* the drawdown is past the rulebook's max-drawdown limit
DrawdownPastLimit ==
    NumGT(tracker.metrics.currentDrawdown, Num(getRulebook.maxDrawdownPercent))

\* no decision cycle is under way: the next one is the next to run
NoCycleUnderWay == \A c \in 1..MaxCycles : cycles[c].pc \in {"idle", "done"}

\* C30: once a recorded trade close has brought the daily loss to the
\* daily-loss limit or the drawdown past the max-drawdown limit, the Kill
\* Switch is active by the time the cycle that closed the trade has ended,
\* that is, before the next decision cycle runs.
C30_BreachingCloseActivatesKillSwitch ==
    (/\ Len(metricsLog.closes) > 0
     /\ DailyLossAtLimit \/ DrawdownPastLimit
     /\ NoCycleUnderWay)
    => isActive

\* the engine has closed a trade at a loss that reaches the daily-loss limit,
\* the cycle has completed, and the Kill Switch was never activated
C30_Witness ==
    /\ Len(metricsLog.closes) = 1
    /\ metricsLog.closes[1].pnl < 0
    /\ DailyLossAtLimit
    /\ NoCycleUnderWay
    /\ \E c \in 1..MaxCycles : cycles[c].outcome = "completed" /\ cycles[c].evaluated
    /\ ~isActive
    /\ activatedEvents = 0

\* the hold times and sizes the bound functions are tried on
HoldTimeInputs == {0, 1000, 5000, 10000, 60000, 300000, 400000, 500000}
SizeInputs == {-1, 0, 1, 3, 5, 6, 10 * QtyPerBTC, 20 * QtyPerBTC}

\* the decisions requestDecision has returned to a cycle, as logged
ReturnedDecisions == {logs[i].response : i \in DOMAIN logs}

\* C31: under every rulebook that passes validation, every decision
\* requestDecision returns has 0 <= size <= maxPositionSizeBTC and
\* minHoldTimeMs <= holdTimeMs <= maxHoldTimeMs, and for every input x
\* checkHoldTime(boundHoldTime(x)) and checkPositionSize(boundPositionSize(x))
\* pass and the bound functions are idempotent.
C31_ClampedValuesPassTheirChecks ==
    /\ \A d \in ReturnedDecisions :
          /\ 0 <= d.size /\ d.size <= getRulebook.maxPositionSizeBTC
          /\ getRulebook.minHoldTimeMs <= d.holdTimeMs
          /\ d.holdTimeMs <= getRulebook.maxHoldTimeMs
    /\ \A x \in HoldTimeInputs :
          /\ checkHoldTime(boundHoldTime(x)).passed
          /\ boundHoldTime(boundHoldTime(x)) = boundHoldTime(x)
    /\ \A x \in SizeInputs :
          /\ checkPositionSize(boundPositionSize(x)).passed
          /\ boundPositionSize(boundPositionSize(x)) = boundPositionSize(x)

\* on a validated rulebook whose minimum hold time is above its maximum, a
\* cycle has been handed a decision clamped to the minimum, which HOLD_TIME
\* rejects
C31_Witness ==
    /\ RulebookConfigSchemaOk(rulebook)
    /\ rulebook.minHoldTimeMs > rulebook.maxHoldTimeMs
    /\ \E d \in ReturnedDecisions :
          /\ d.action = "BUY"
          /\ d.holdTimeMs = boundHoldTime(d.holdTimeMs)
          /\ ~checkHoldTime(d.holdTimeMs).passed

\* the reconnection attempts made for a stream since it was last open never
\* exceed maxReconnectAttempts, and the k-th was delayed reconnectDelay * 2^(k-1)
ReconnectsBackOff ==
    \A s \in Streams :
        /\ wsClient.tried[s] <= maxReconnectAttempts
        /\ wsClient.tried[s] > 0 =>
              wsClient.slept[s] = reconnectDelay * Pow(2, wsClient.tried[s] - 1)

\* exhausting the attempts emits maxReconnectReached once and ends the attempts
ReconnectsEndOnce ==
    \A s \in Streams :
        /\ wsClient.maxReconnectReached[s] <= 1
        /\ wsClient.maxReconnectReached[s] = 1 =>
              /\ wsClient.tried[s] = maxReconnectAttempts
              /\ wsClient.sleeping[s] = NotSleeping
              /\ wsClient.sockets[s] = "none"

\* C32: for each market-data stream, the consecutive reconnection attempts
\* without a successful connection in between never exceed
\* maxReconnectAttempts, the k-th is delayed reconnectDelay * 2^(k-1), the
\* exhausted attempts end in a single maxReconnectReached event with no
\* further attempt, and no reconnection is attempted after disconnectAll.
C32_ReconnectsBackOffAndStopAtShutdown ==
    /\ ReconnectsBackOff
    /\ ReconnectsEndOnce
    /\ wsClient.afterShutdown = 0

\* disconnectAll was called while attemptReconnect slept; the reconnection
\* was made all the same and its socket is now open
C32_Witness ==
    /\ wsClient.isShuttingDown
    /\ wsClient.afterShutdown > 0
    /\ \E s \in Streams :
          /\ wsClient.sockets[s] = "open"
          /\ s \in wsClient.connections
          /\ wsClient.slept[s] = reconnectDelay

RECURSIVE NetFilledUpTo(_)
\* the signed quantity the FILLED orders 1..n have bought (bought minus sold)
NetFilledUpTo(n) ==
    IF n = 0 THEN 0
    ELSE NetFilledUpTo(n - 1)
         + (IF orders[n].status # "FILLED" THEN 0
            ELSE IF orders[n].side = "BUY" THEN orders[n].filledQuantity
            ELSE -orders[n].filledQuantity)

\* the quantity of filled entries that no filled exit has closed
NetFilledQuantity == Abs(NetFilledUpTo(Len(orders)))

\* C33: over any sequence of decision cycles the net quantity of filled entry
\* orders not closed by a filled exit never exceeds maxPositionSizeBTC, and
\* the Position record's quantity equals that net filled quantity.
C33_PositionNeverExceedsMaxSize ==
    /\ NetFilledQuantity <= getRulebook.maxPositionSizeBTC
    /\ account.position.quantity = NetFilledQuantity

\* two entries have been filled for more than the maximum in total while the
\* Position record shows one of them only
C33_Witness ==
    /\ Len(orders) = 2
    /\ \A id \in DOMAIN orders : orders[id].status = "FILLED" /\ orders[id].side = "BUY"
    /\ NetFilledQuantity > getRulebook.maxPositionSizeBTC
    /\ account.position.side = "LONG"
    /\ account.position.quantity < NetFilledQuantity
    /\ NoCycleUnderWay

\* C34: while the Kill Switch is active no order is submitted to the Order
\* Manager and no order becomes SUBMITTED or FILLED, the orders of a
\* submission in flight and the resubmissions of the Order Retry Manager
\* included.
C34_NoOrderMovesWhileKillSwitchActive ==
    [][isActive =>
          /\ Len(orders') = Len(orders)
          /\ \A id \in DOMAIN orders :
                orders'[id].status # orders[id].status
                => orders'[id].status \notin {"SUBMITTED", "FILLED"}]_vars

\* the Kill Switch has been active since the emergency shutdown cancelled an
\* order; the retry manager has resubmitted that order and the new order is
\* SUBMITTED or FILLED
C34_Witness ==
    /\ isShutdown /\ isActive /\ deactivatedEvents = 0
    /\ \E id \in DOMAIN submits :
          /\ submits[id].caller = "retry"
          /\ submits[id].oldId \in DOMAIN orders
          /\ orders[submits[id].oldId].status = "CANCELLED"
          /\ orders[id].status \in {"SUBMITTED", "FILLED"}

\* the decision cycles that have started and not returned
CyclesInProgress == {c \in 1..MaxCycles : cycles[c].pc \notin {"idle", "done"}}

\* C35: at most one decision cycle is in progress at any time: the timer
\* never starts a cycle while an earlier one is suspended on the decision
\* service or on order submission.
C35_AtMostOneCycleInProgress == Cardinality(CyclesInProgress) <= 1

\* two cycles that read the same flat position are both submitting an entry
\* order for it
C35_Witness ==
    \E c1, c2 \in CyclesInProgress :
        /\ c1 < c2
        /\ cycles[c1].pc \in {"awaitSubmit", "awaitFill"}
        /\ cycles[c2].pc \in {"awaitSubmit", "awaitFill"}
        /\ cycles[c1].position = cycles[c2].position
        /\ cycles[c1].orderId # cycles[c2].orderId
        /\ orders[cycles[c1].orderId].side = "BUY"
        /\ orders[cycles[c2].orderId].side = "BUY"

\* the verdict holds a failed check of that name
CheckFails(verdict, name) ==
    \E i \in DOMAIN verdict.checks :
        verdict.checks[i].checkName = name /\ ~verdict.checks[i].passed

\* the day's realized P&L is a loss of more than maxDailyLossPercent of the
\* start-of-day equity
DailyLossExceedsLimit ==
    /\ tracker.metrics.dailyPnl < 0
    /\ (-tracker.metrics.dailyPnl) * 100
          > getRulebook.maxDailyLossPercent * tracker.startOfDayEquity

\* C36: the Veto Gate's DAILY_LOSS check fails if and only if the day's
\* realized P&L is a loss larger than maxDailyLossPercent of start-of-day
\* equity; a daily P&L that is not negative never fails it.
C36_DailyLossFailsOnlyOnLoss ==
    \A decision \in GateDecisions :
        CheckFails(evaluate(decision, orderBook, lastPrice, isActive, tracker.metrics, now),
                   "DAILY_LOSS")
        <=> DailyLossExceedsLimit

\* the Veto Gate has vetoed a decision on DAILY_LOSS on a day whose only
\* close is a profit
C36_Witness ==
    /\ lastVerdict.op = "evaluate"
    /\ lastVerdict.vetoed
    /\ lastVerdict.failedChecks = <<"DAILY_LOSS">>
    /\ tracker.metrics.dailyPnl > 0
    /\ tracker.metrics.dailyLosses = 0
    /\ \E decision \in GateDecisions :
          lastVerdict = evaluate(decision, orderBook, lastPrice, isActive, tracker.metrics, now)

\* the open position's notional as a fraction of the equity
PositionShareOfEquity ==
    [n |-> account.position.marginUsed, d |-> account.balance.totalEquity]

\* the exposure the Veto Gate reads, as a fraction instead of a percentage
ExposureRead ==
    [n |-> tracker.metrics.currentExposurePercent.n,
     d |-> tracker.metrics.currentExposurePercent.d * 100]

\* C37: the exposure the Veto Gate feeds to the EXPOSURE check is that of the
\* open position: currentExposurePercent equals the position's notional as a
\* percentage of equity, and is 0 when the position is flat.
C37_ExposureFollowsThePosition ==
    /\ ~NumGT(ExposureRead, PositionShareOfEquity)
    /\ ~NumGT(PositionShareOfEquity, ExposureRead)

\* with a long position worth more than maxExposurePercent of equity open,
\* a further BUY has passed the Veto Gate and is being submitted, the
\* exposure still reading 0
C37_Witness ==
    \E c \in 1..MaxCycles :
        /\ cycles[c].pc = "awaitSubmit"
        /\ cycles[c].position.side = "LONG"
        /\ cycles[c].decision.action = "BUY"
        /\ account.position.side = "LONG"
        /\ NumGT(PositionShareOfEquity, [n |-> getRulebook.maxExposurePercent, d |-> 100])
        /\ tracker.metrics.currentExposurePercent = Num(0)
        /\ LastLog.requestId = c
        /\ ~LastLog.riskVeto.vetoed
        /\ ~CheckFails(LastLog.riskVeto, "EXPOSURE")

\* C38: every order the orchestrator submits to the Order Manager, entry or
\* exit, filled or resting, has been recorded once as an order-placed event
\* by the time no cycle is under way, so that the orders the ORDER_RATE check
\* counts are the orders submitted.
C38_EverySubmittedOrderIsRecorded ==
    NoCycleUnderWay => Len(metricsLog.placed) = Len(orders)

\* an entry and the exit that closed it have both been submitted and filled,
\* the cycles have ended, and one order-placed event has been recorded
C38_Witness ==
    /\ NoCycleUnderWay
    /\ Len(orders) = 2
    /\ orders[1].side = "BUY" /\ orders[1].status = "FILLED"
    /\ orders[2].side = "SELL" /\ orders[2].status = "FILLED"
    /\ account.position.side = "FLAT"
    /\ Len(metricsLog.placed) = 1
    /\ Len(metricsLog.closes) = 1
    /\ Len(tracker.orderTimestamps) = 1

\* the decision carries a limit price within 1% of the last price
LimitPriceNearReference(decision) ==
    /\ decision.limitPrice # Undefined
    /\ lastPrice > 0
    /\ Abs(decision.limitPrice - lastPrice) * 100 <= lastPrice

\* C39: no BUY or SELL decision of order type LIMIT or POST_ONLY passes the
\* Veto Gate unless it carries a limit price within 1% of the reference
\* price, its size is positive and its confidence is at least 0.3.
C39_LimitEntriesPassOnlyIfSane ==
    \A decision \in SanityDecisions :
        ~evaluate(decision, orderBook, lastPrice, isActive, tracker.metrics, now).vetoed
        => /\ LimitPriceNearReference(decision)
           /\ decision.size > 0
           /\ decision.confidence >= MinConfidenceTenths

\* the Veto Gate has approved a POST_ONLY entry whose limit price is 5% off
\* the last price
C39_Witness ==
    /\ lastVerdict.op = "evaluate"
    /\ ~lastVerdict.vetoed
    /\ lastPrice = 20000
    /\ \E decision \in SanityDecisions :
          /\ decision.orderType = "POST_ONLY"
          /\ decision.limitPrice = 19000
          /\ lastVerdict = evaluate(decision, orderBook, lastPrice, isActive,
                                    tracker.metrics, now)

\* C40: after a bookTicker update with best bid b and best ask a, both of
\* positive quantity, getBestBid() is b and getBestAsk() is a, and the book
\* is not crossed whenever b < a, whatever levels the replica held before.
C40_TickerSetsTheTopOfBook ==
    [][\A bid \in TickerBids, ask \in TickerAsks, E \in EventTimes :
         BookTicker(bid, ask, E)
         => /\ getBestBid(orderBook') = bid.price
            /\ getBestAsk(orderBook') = ask.price
            /\ bid.price < ask.price => getBestBid(orderBook') < getBestAsk(orderBook')]_vars

\* a bookTicker message has been applied and its bid lies behind a higher
\* bid that the replica held before
C40_Witness ==
    /\ omCall.op = "handleBookTicker"
    /\ \E i \in 2..Len(orderBook.bids) :
          /\ orderBook.bids[i] \in TickerBids
          /\ orderBook.bids[1].price > orderBook.bids[i].price
====
